---- MODULE Spec2Model ----
(***************************************************************************)
(* Memory layer of automaker (libs/memory-layer): the record store         *)
(* (errors, solutions, tags, tag links, embeddings), the fingerprint       *)
(* normalizer that keys it, and the process-wide database connection.      *)
(*                                                                         *)
(* Text is modelled as a sequence of atoms.  An atom is a maximal chunk    *)
(* of a string that the regular expressions of error-hash.ts treat as a    *)
(* unit: a word, a run of digits, one whitespace character, one            *)
(* punctuation character.  Concatenation of strings is \o on atoms.        *)
(***************************************************************************)
EXTENDS Integers, Sequences, FiniteSets, TLC

(***************************************************************************)
(* Bounds of the model.                                                    *)
(***************************************************************************)
MaxErrorId == 2
MaxSolutionId == 2
MaxAttempts == 2
MaxOccurrences == 2
MaxClock == 1
MaxConn == 3
MaxLen == 3
MaxStr == 3
MaxBulk == 21
MaxTried == 44

NULL == "null"
NoId == 0
NoCall == [op |-> "none"]

Writers == {"w1", "w2"}
Callers == {"c1", "c2"}

(***************************************************************************)
(* Sequence helpers.                                                       *)
(***************************************************************************)
Range(s) == {s[i] : i \in DOMAIN s}

RECURSIVE Gcd(_, _)
Gcd(a, b) == IF b = 0 THEN a ELSE Gcd(b, a % b)

(***************************************************************************)
(* Atoms: classification as the character classes of the patterns see it.  *)
(***************************************************************************)
IsSpace(a) == a \in {" ", "\t", "\n"}

\* number of digits of an atom that is a run of decimal digits, 0 otherwise
Digits(a) ==
  CASE a \in {"10", "99"} -> 2
    [] a = "12345" -> 5
    [] OTHER -> 0

\* String.prototype.toLowerCase on one atom
toLowerCase(a) ==
  CASE a = "Error" -> "error"
    [] a = "Line" -> "line"
    [] a = "Disk" -> "disk"
    [] a = "TypeError" -> "typeerror"
    [] a = "React" -> "react"
    [] a = " React " -> " react "
    [] a = "Vue" -> "vue"
    [] a = "X" -> "x"
    [] a = "Y" -> "y"
    [] a = "<LINE>" -> "<line>"
    [] a = "<ID>" -> "<id>"
    [] a = "<ADDR>" -> "<addr>"
    [] a = "<FILE_PATH>" -> "<file_path>"
    [] a = "0X1F" -> "0x1f"
    [] a = "<LINE>x1f" -> "<line>x1f"
    [] a = "<LINE>X1F" -> "<line>x1f"
    [] OTHER -> a

LowerAll(s) == [i \in DOMAIN s |-> toLowerCase(s[i])]

\* String.prototype.trim: strip leading and trailing whitespace atoms
RECURSIVE TrimLeft(_)
TrimLeft(s) ==
  IF s # <<>> /\ IsSpace(Head(s)) THEN TrimLeft(Tail(s)) ELSE s

RECURSIVE TrimRight(_)
TrimRight(s) ==
  IF s # <<>> /\ IsSpace(s[Len(s)]) THEN TrimRight(SubSeq(s, 1, Len(s) - 1)) ELSE s

Trim(s) == TrimRight(TrimLeft(s))

(***************************************************************************)
(* NORMALIZATION_PATTERNS, applied left to right with the g flag.  The     *)
(* patterns whose matches need atoms outside the alphabet of the messages  *)
(* below (drive paths, :line:col, UUIDs, timestamps, IPs, ports, long      *)
(* quoted strings) find no match and leave the text as it is.  A message   *)
(* is well formed when its word, number and path atoms are separated by    *)
(* whitespace, so that no match straddles two of them.                     *)
(***************************************************************************)
WellFormed(s) ==
  \A i \in 1..(Len(s) - 1) : IsSpace(s[i]) \/ IsSpace(s[i + 1])

\* /(?:\/[\w.-]+)+(?:\/[\w.-]+)*\.\w+/g -> '<FILE_PATH>'
ReplacePath(s) == [i \in DOMAIN s |-> IF s[i] = "/src/app.ts" THEN "<FILE_PATH>" ELSE s[i]]

\* the pattern has no \b before (?:line|ln|L) and carries the i flag: it
\* matches from the last "line", "ln" or "l" that ends a word.  LineHead is
\* that word with the matched ending replaced by 'line', "" when the word
\* does not end so
LineHead(a) ==
  CASE a \in {"line", "Line", "ln", "L", "l"} -> "line"
    [] a = "full" -> "fulline"
    [] OTHER -> ""

\* \d+ at the start of an atom: the atom with its leading digits replaced
\* by '<LINE>', "" when it does not start with a digit
LineTarget(a) ==
  CASE Digits(a) > 0 -> "<LINE>"
    [] a = "0x1f" -> "<LINE>x1f"
    [] a = "0X1F" -> "<LINE>X1F"
    [] OTHER -> ""

\* index just after a run of whitespace atoms starting at i
RECURSIVE SkipSpaces(_, _)
SkipSpaces(s, i) ==
  IF i <= Len(s) /\ IsSpace(s[i]) THEN SkipSpaces(s, i + 1) ELSE i

\* /(?:line|ln|L)\s*:?\s*\d+/gi at index i: index of the last atom of the
\* match, 0 when there is no match
LineMatchEnd(s, i) ==
  IF LineHead(s[i]) = "" THEN 0
  ELSE LET j == SkipSpaces(s, i + 1)
           k == IF j <= Len(s) /\ s[j] = ":" THEN SkipSpaces(s, j + 1) ELSE j
       IN IF k <= Len(s) /\ LineTarget(s[k]) # "" THEN k ELSE 0

RECURSIVE ReplaceLineFrom(_, _)
ReplaceLineFrom(s, i) ==
  IF i > Len(s) THEN <<>>
  ELSE LET e == LineMatchEnd(s, i)
       IN IF e > 0 THEN <<LineHead(s[i]), " ", LineTarget(s[e])>> \o ReplaceLineFrom(s, e + 1)
          ELSE <<s[i]>> \o ReplaceLineFrom(s, i + 1)

ReplaceLine(s) == ReplaceLineFrom(s, 1)

\* /0x[0-9a-fA-F]+/g -> '<ADDR>': the prefix is matched case-sensitively
ReplaceAddr(s) == [i \in DOMAIN s |-> IF s[i] = "0x1f" THEN "<ADDR>" ELSE s[i]]

\* /\b\d{5,}\b/g -> '<ID>'
ReplaceId(s) == [i \in DOMAIN s |-> IF Digits(s[i]) >= 5 THEN "<ID>" ELSE s[i]]

\* /\s+/g -> ' '
RECURSIVE CollapseSpaces(_)
CollapseSpaces(s) ==
  IF s = <<>> THEN <<>>
  ELSE IF IsSpace(Head(s))
       THEN <<" ">> \o CollapseSpaces(SubSeq(s, SkipSpaces(s, 1), Len(s)))
       ELSE <<Head(s)>> \o CollapseSpaces(Tail(s))

normalizeErrorMessage(message) ==
  Trim(LowerAll(CollapseSpaces(ReplaceId(ReplaceAddr(ReplaceLine(ReplacePath(Trim(message))))))))

\* an atom as the pieces that a colon inside it separates
splitAtColon(a) ==
  CASE a = "net:foo" -> <<"net", ":", "foo">>
    [] a = "foo:bar" -> <<"foo", ":", "bar">>
    [] OTHER -> <<a>>

\* the text a template literal makes of its parts: one run of characters, in
\* which a colon of a part is not told from a colon between parts
RECURSIVE concat(_)
concat(s) == IF s = <<>> THEN <<>> ELSE splitAtColon(Head(s)) \o concat(Tail(s))

\* sha256 over `${errorType}:${normalized}`; the digest is taken as
\* injective, so the hash is the digested text itself
generateErrorHash_RawMessage(message, errorType) ==
  concat(<<errorType, ":">> \o message)

generateErrorHash(message, errorType) ==
  concat(<<errorType, ":">> \o normalizeErrorMessage(message))

\* first matching pattern wins; of the vocabularies only /TypeError/i can
\* match an atom of the alphabet
extractErrorType(message) ==
  IF \E i \in DOMAIN message : toLowerCase(message[i]) = "typeerror"
  THEN "TypeError" ELSE "unknown"

\* of the urgency vocabularies only /error/ (medium tier) can match
suggestSeverity(message) ==
  IF \E i \in DOMAIN message : toLowerCase(message[i]) \in {"error", "typeerror"}
  THEN "medium" ELSE "low"

\* the category lower-cased; no technology or domain word is an atom
extractTags(message, errorType) == <<toLowerCase(errorType)>>


\* getOrCreateTags: name.toLowerCase().trim() of a one-atom tag name
trim(a) ==
  IF IsSpace(a) THEN ""
  ELSE IF a = " react " THEN "react"
  ELSE a

normalizedName(name) == trim(toLowerCase(name))

(***************************************************************************)
(* Float32 little-endian packing of the vector components in use.          *)
(***************************************************************************)
\* 16777217 = 2^24 + 1 has no single-precision representation and is stored
\* as 2^24
writeFloatLE(v) ==
  CASE v = 0 -> <<0, 0, 0, 0>>
    [] v = 1 -> <<0, 0, 128, 63>>
    [] v = 2 -> <<0, 0, 0, 64>>
    [] v = 3 -> <<0, 0, 64, 64>>
    [] v = 4 -> <<0, 0, 128, 64>>
    [] v = 16777216 -> <<0, 0, 128, 75>>
    [] v = 16777217 -> <<0, 0, 128, 75>>

readFloatLE(b) ==
  CASE b = <<0, 0, 0, 0>> -> 0
    [] b = <<0, 0, 128, 63>> -> 1
    [] b = <<0, 0, 0, 64>> -> 2
    [] b = <<0, 0, 64, 64>> -> 3
    [] b = <<0, 0, 128, 64>> -> 4
    [] b = <<0, 0, 128, 75>> -> 16777216

RECURSIVE floatArrayToBuffer(_)
floatArrayToBuffer(arr) ==
  IF arr = <<>> THEN <<>> ELSE writeFloatLE(Head(arr)) \o floatArrayToBuffer(Tail(arr))

RECURSIVE bufferToFloatArray(_)
bufferToFloatArray(buffer) ==
  IF buffer = <<>> THEN <<>>
  ELSE <<readFloatLE(SubSeq(buffer, 1, 4))>> \o bufferToFloatArray(SubSeq(buffer, 5, Len(buffer)))

(***************************************************************************)
(* similarity.ts.  A score is a fraction <<numerator, denominator>> in     *)
(* lowest terms with a positive denominator; the arithmetic on scores is   *)
(* exact.                                                                  *)
(***************************************************************************)
Abs(x) == IF x < 0 THEN 0 - x ELSE x

Frac(n, d) ==
  IF n = 0 THEN <<0, 1>>
  ELSE LET g == Gcd(Abs(n), Abs(d))
       IN IF d < 0 THEN <<(0 - n) \div g, (0 - d) \div g>> ELSE <<n \div g, d \div g>>

FracGeq(x, y) == x[1] * y[2] >= y[1] * x[2]
FracAdd(x, y) == Frac(x[1] * y[2] + y[1] * x[2], x[2] * y[2])
FracMul(x, y) == Frac(x[1] * y[1], x[2] * y[2])
One == <<1, 1>>

\* Math.sqrt, on the perfect squares it is applied to
sqrt(n) == CHOOSE r \in 0..n : r * r = n

RECURSIVE dotProduct(_, _)
dotProduct(a, b) ==
  IF a = <<>> THEN 0 ELSE Head(a) * Head(b) + dotProduct(Tail(a), Tail(b))

cosineSimilarity(a, b) ==
  IF Len(a) # Len(b) THEN [status |-> "throw"]
  ELSE IF Len(a) = 0 THEN [status |-> "ok", value |-> <<0, 1>>]
  ELSE LET magnitude == sqrt(dotProduct(a, a)) * sqrt(dotProduct(b, b))
       IN IF magnitude = 0 THEN [status |-> "ok", value |-> <<0, 1>>]
          ELSE [status |-> "ok", value |-> Frac(dotProduct(a, b), magnitude)]

\* the strings of jaccardSimilarity as sets, lower-cased
jaccardSimilarity(a, b) ==
  LET setA == {toLowerCase(x) : x \in a}
      setB == {toLowerCase(x) : x \in b}
  IN IF setA = {} /\ setB = {} THEN One
     ELSE Frac(Cardinality(setA \cap setB), Cardinality(setA \cup setB))

Min3(x, y, z) ==
  IF x <= y /\ x <= z THEN x ELSE IF y <= z THEN y ELSE z

editCell_NoSubstitution(same, diagonal, left, up) ==
  IF same THEN diagonal ELSE Min3(left + 1, left + 1, up + 1)

\* matrix[i][j] from matrix[i-1][j-1], matrix[i][j-1] and matrix[i-1][j]
editCell(same, diagonal, left, up) ==
  IF same THEN diagonal ELSE Min3(diagonal + 1, left + 1, up + 1)

\* row i of the matrix from row i-1; position j+1 of a row holds matrix[i][j]
RECURSIVE levenshteinRow(_, _, _, _, _)
levenshteinRow(a, ch, prev, row, j) ==
  IF j > Len(a) THEN row
  ELSE levenshteinRow(a, ch, prev,
                      Append(row, editCell(ch = a[j], prev[j], row[j], prev[j + 1])),
                      j + 1)

\* the rows in order, each filled to its full length a.length + 1 before the
\* next is begun
RECURSIVE levenshteinRows(_, _, _, _)
levenshteinRows(a, b, prev, i) ==
  IF i > Len(b) \/ Len(prev) # Len(a) + 1 THEN prev
  ELSE levenshteinRows(a, b, levenshteinRow(a, b[i], prev, <<i>>, 1), i + 1)

\* a and b are strings as sequences of UTF-16 code units
levenshteinDistance(a, b) ==
  IF Len(a) = 0 THEN Len(b)
  ELSE IF Len(b) = 0 THEN Len(a)
  ELSE levenshteinRows(a, b, [j \in 1..(Len(a) + 1) |-> j - 1], 1)[Len(a) + 1]

levenshteinSimilarity(a, b) ==
  LET maxLength == IF Len(a) >= Len(b) THEN Len(a) ELSE Len(b)
  IN IF maxLength = 0 THEN One
     ELSE Frac(maxLength - levenshteinDistance(a, b), maxLength)

\* the code units of an atom
Chars(a) ==
  CASE a = " " -> <<" ">>
    [] a = "error" -> <<"e", "r", "r", "o", "r">>
    [] a = "at" -> <<"a", "t">>
    [] a = "line" -> <<"l", "i", "n", "e">>
    [] a = "<line>" -> <<"<", "l", "i", "n", "e", ">">>
    [] a = "disk" -> <<"d", "i", "s", "k">>
    [] a = "fulline" -> <<"f", "u", "l", "l", "i", "n", "e">>
    [] a = "typeerror" -> <<"t", "y", "p", "e", "e", "r", "r", "o", "r">>
    [] a = "react" -> <<"r", "e", "a", "c", "t">>
    [] a = "vue" -> <<"v", "u", "e">>
    [] a = "10" -> <<"1", "0">>
    [] a = "99" -> <<"9", "9">>

RECURSIVE Flatten(_)
Flatten(s) == IF s = <<>> THEN <<>> ELSE Chars(Head(s)) \o Flatten(Tail(s))

\* a.toLowerCase().split(/\s+/).filter(Boolean) of a well-formed text
Tokens(s) == {toLowerCase(s[i]) : i \in {k \in DOMAIN s : ~IsSpace(s[k])}}

tokenSimilarity(a, b) == jaccardSimilarity(Tokens(a), Tokens(b))

\* token * tokenSim + levenshtein * levenshteinSim with the default weights
\* 0.6 and 0.4
combinedSimilarity(a, b) ==
  FracAdd(FracMul(<<3, 5>>, tokenSimilarity(a, b)),
          FracMul(<<2, 5>>, levenshteinSimilarity(Flatten(a), Flatten(b))))

(***************************************************************************)
(* Inputs.                                                                 *)
(***************************************************************************)
MsgLine10 == <<"Error", " ", "at", " ", "line", " ", "10">>
MsgLine99 == <<"Error", " ", "at", " ", "Line", " ", " ", "99">>
MsgDisk == <<"Disk", " ", "full", " ", "12345">>

InA == [message |-> MsgLine10, errorType |-> "X", severity |-> "low",
        stackTrace |-> "st1", filePath |-> NULL, projectName |-> "p1", tags |-> <<"React">>]
InB == [message |-> MsgLine99, errorType |-> "X", severity |-> "high",
        stackTrace |-> NULL, filePath |-> "f2", projectName |-> "p2", tags |-> <<"vue">>]
InC == [message |-> MsgLine10, errorType |-> "Y", severity |-> "low",
        stackTrace |-> NULL, filePath |-> NULL, projectName |-> "p1", tags |-> <<>>]
InD == [message |-> MsgDisk, errorType |-> "", severity |-> "",
        stackTrace |-> NULL, filePath |-> NULL, projectName |-> NULL, tags |-> <<"react">>]

InE == [message |-> MsgLine10, errorType |-> "", severity |-> "",
        stackTrace |-> NULL, filePath |-> NULL, projectName |-> "p1", tags |-> <<>>]

\* reports whose category or message holds a colon
ColonInputs ==
  {[message |-> m, errorType |-> c, severity |-> "low", stackTrace |-> NULL,
    filePath |-> NULL, projectName |-> "p1", tags |-> <<>>] :
     m \in {<<"bar">>, <<"foo:bar">>}, c \in {"net", "net:foo"}}

ErrorInputs == {InA, InB, InC, InD}
SearchInputs == {InA, InE}
MsgShort == <<"Error", " ", "at">>
SearchQueries == {MsgLine10, MsgShort}
\* what the provider returns for a captured message, and for a query
StoredVectors == {<<1, 0>>, <<0, 0, 1>>}
QueryVectors == {<<4, 3>>, <<0, 0, 1>>}
RaceInputs == {InA, InB, InC}
StoreInputs == {InA, InC}

\* messages of at most MaxLen atoms
NormalizeAtoms == {"Error", "full", "line", "10", "12345", "0X1F", "0x1f", "/src/app.ts", " ", "\t"}
Messages == {m \in UNION {[1..k -> NormalizeAtoms] : k \in 0..MaxLen} : WellFormed(m)}

\* strings of at most MaxStr code units
CodeUnits == {"a", "b"}
Strings == UNION {[1..k -> CodeUnits] : k \in 0..MaxStr}

\* reports of one message under as many categories as wanted, each tagged
BulkTypes ==
  <<"t1", "t2", "t3", "t4", "t5", "t6", "t7", "t8", "t9", "t10", "t11", "t12",
    "t13", "t14", "t15", "t16", "t17", "t18", "t19", "t20", "t21", "t22", "t23", "t24">>
BulkInput(i) ==
  [message |-> MsgLine10, errorType |-> BulkTypes[i], severity |-> "low",
   stackTrace |-> NULL, filePath |-> NULL, projectName |-> "p1", tags |-> <<"React">>]
RankedSizes == {3, 8}
RankedSolutionInputs ==
  {[errorId |-> e, content |-> "fix", source |-> "agent"] : e \in 1..MaxErrorId}
RankedContexts ==
  {[errorMessage |-> MsgLine10, tags |-> <<"t1", "t2", "t3">>, featureTitle |-> <<>>],
   [errorMessage |-> <<>>, tags |-> <<"React">>, featureTitle |-> <<"vue">>]}
TagQueries == {<<"React">>, <<"t1">>, <<"vue", "t2">>, <<"none">>}

ErrorIds == 1..(MaxErrorId + 1)
SolutionIds == 1..(MaxSolutionId + 1)
TagNames == {"React", "vue"}
Vectors == {<<1, 0>>, <<0, 1, 2>>}
\* a vector with a component that single precision cannot hold
WideVectors == {<<16777217>>}
GeneratorModel == "mock-embedding-v1"
ManualModel == "test-model"

(***************************************************************************)
(* State.                                                                  *)
(***************************************************************************)
VARIABLES
  errors,             \* rows of table errors
  solutions,          \* rows of table solutions
  tags,               \* rows of table tags
  errorTags,          \* rows of table error_tags
  embeddings,         \* rows of table embeddings
  seq,                \* AUTOINCREMENT counters per table
  now,                \* datetime('now')
  config,             \* memory-service config
  embeddingGenerator, \* memory-service embeddingGenerator
  inflight,           \* position of each call that is suspended or between statements
  last,               \* what the call completing in this step gave its caller
  dbInstance,         \* connection.ts singleton
  dbPath,             \* connection.ts dbPath
  disk,               \* the database file: schema version marker and tables
  handles,            \* connections opened and not closed
  nextConn,           \* identity of the next connection object
  initPc              \* position of each initializeDatabase call

storeVars == <<errors, solutions, tags, errorTags, embeddings, seq>>
svcVars == <<config, embeddingGenerator>>
connVars == <<dbInstance, dbPath, disk, handles, nextConn, initPc>>
vars == <<errors, solutions, tags, errorTags, embeddings, seq, now, config,
          embeddingGenerator, inflight, last, dbInstance, dbPath, disk,
          handles, nextConn, initPc>>

Idle == [pc |-> "idle"]

(***************************************************************************)
(* Schema (schema.ts) and pragmas (connection.ts).                         *)
(***************************************************************************)
CURRENT_SCHEMA_VERSION == 1

ForeignKeysOff == FALSE

\* dbInstance.pragma('foreign_keys = ON')
ForeignKeysOn == TRUE

ErrorsHashUnique_None(es, hash) == FALSE

\* errors.hash TEXT NOT NULL UNIQUE: would inserting hash violate it
ErrorsHashUnique(es, hash) == \E e \in es : e.hash = hash

success_rate_IntegerDivision(s, f) ==
  IF s + f = 0 THEN <<0, 1>> ELSE <<s \div (s + f), 1>>

\* solutions.success_rate GENERATED ALWAYS AS (...) STORED, as a reduced
\* fraction <<numerator, denominator>>
success_rate(s, f) ==
  IF s + f = 0 THEN <<0, 1>>
  ELSE <<s \div Gcd(s, s + f), (s + f) \div Gcd(s, s + f)>>

ErrorExists(es, id) == \E e \in es : e.id = id
TagExists(ts, id) == \E t \in ts : t.id = id

\* ON DELETE CASCADE from errors(id) to solutions, error_tags, embeddings
Cascade(rows, id) ==
  IF ForeignKeysOn THEN {r \in rows : r.errorId # id} ELSE rows


(***************************************************************************)
(* The store as one value, so that a statement or a transaction is a       *)
(* function from store to store.                                           *)
(***************************************************************************)
Db == [errors |-> errors, solutions |-> solutions, tags |-> tags,
       errorTags |-> errorTags, embeddings |-> embeddings, seq |-> seq]

Commit(db) ==
  /\ errors' = db.errors
  /\ solutions' = db.solutions
  /\ tags' = db.tags
  /\ errorTags' = db.errorTags
  /\ embeddings' = db.embeddings
  /\ seq' = db.seq

EmptyDb == [errors |-> {}, solutions |-> {}, tags |-> {}, errorTags |-> {},
            embeddings |-> {},
            seq |-> [errors |-> 0, solutions |-> 0, tags |-> 0]]

\* [...new Set(xs)]: first occurrences, in order
RECURSIVE Dedupe(_)
Dedupe(xs) ==
  IF xs = <<>> THEN <<>>
  ELSE LET init == Dedupe(SubSeq(xs, 1, Len(xs) - 1))
       IN IF xs[Len(xs)] \in Range(init) THEN init ELSE Append(init, xs[Len(xs)])

(***************************************************************************)
(* tag-service.ts                                                          *)
(***************************************************************************)
getTagByName_CaseSensitive(db, name) == {t \in db.tags : t.name = name}

\* the rows SELECT * FROM tags WHERE name = ? yields: none or one
getTagByName(db, name) == {t \in db.tags : t.name = normalizedName(name)}

createTag(db, name) ==
  LET id == db.seq.tags + 1
  IN [db EXCEPT !.tags = @ \cup {[id |-> id, name |-> normalizedName(name), category |-> NULL]},
                !.seq.tags = id]

RECURSIVE getOrCreateTags(_, _)
getOrCreateTags(db, names) ==
  IF names = <<>> THEN [db |-> db, ids |-> <<>>]
  ELSE IF normalizedName(Head(names)) = "" THEN getOrCreateTags(db, Tail(names))
  ELSE LET tag == getTagByName(db, Head(names))
           db1 == IF tag = {} THEN createTag(db, Head(names)) ELSE db
           id == IF tag = {} THEN db.seq.tags + 1 ELSE (CHOOSE t \in tag : TRUE).id
           rest == getOrCreateTags(db1, Tail(names))
       IN [db |-> rest.db, ids |-> <<id>> \o rest.ids]

RECURSIVE addTagsToError_NoIgnore(_, _, _)
addTagsToError_NoIgnore(db, errorId, tagIds) ==
  IF tagIds = <<>> THEN [db |-> db, status |-> "ok"]
  ELSE LET link == [errorId |-> errorId, tagId |-> Head(tagIds)]
       IN IF link \in db.errorTags THEN [db |-> db, status |-> "throw"]
          ELSE IF ForeignKeysOn /\ ~(ErrorExists(db.errors, errorId) /\ TagExists(db.tags, Head(tagIds)))
          THEN [db |-> db, status |-> "throw"]
          ELSE addTagsToError_NoIgnore([db EXCEPT !.errorTags = @ \cup {link}], errorId, Tail(tagIds))

\* INSERT OR IGNORE INTO error_tags, one statement per tag id; a foreign key
\* violation is not ignored and aborts the statement that raised it
RECURSIVE addTagsToError(_, _, _)
addTagsToError(db, errorId, tagIds) ==
  IF tagIds = <<>> THEN [db |-> db, status |-> "ok"]
  ELSE LET link == [errorId |-> errorId, tagId |-> Head(tagIds)]
       IN IF link \in db.errorTags THEN addTagsToError(db, errorId, Tail(tagIds))
          ELSE IF ForeignKeysOn /\ ~(ErrorExists(db.errors, errorId) /\ TagExists(db.tags, Head(tagIds)))
          THEN [db |-> db, status |-> "throw"]
          ELSE addTagsToError([db EXCEPT !.errorTags = @ \cup {link}], errorId, Tail(tagIds))

setErrorTags(db, errorId, tagIds) ==
  addTagsToError([db EXCEPT !.errorTags = {l \in @ : l.errorId # errorId}], errorId, tagIds)

\* memory-service.ts tagError
tagError(db, errorId, names) ==
  LET t == getOrCreateTags(db, names)
  IN addTagsToError(t.db, errorId, t.ids)

(***************************************************************************)
(* error-service.ts                                                        *)
(***************************************************************************)
errorTypeOf(input) ==
  IF input.errorType # "" THEN input.errorType ELSE extractErrorType(input.message)

severityOf(input) ==
  IF input.severity # "" THEN input.severity ELSE suggestSeverity(input.message)

hashOf(input) == generateErrorHash(input.message, errorTypeOf(input))

\* SELECT id FROM errors WHERE hash = ?
recordErrorSelect(db, input) ==
  LET found == {e \in db.errors : e.hash = hashOf(input)}
  IN IF found = {} THEN NoId ELSE (CHOOSE e \in found : TRUE).id

recordErrorWrite_Overwrite(db, input, existing, t) ==
  IF existing # NoId
  THEN [db |-> [db EXCEPT !.errors =
                  {IF e.id = existing
                   THEN [e EXCEPT !.occurrenceCount = @ + 1, !.lastSeenAt = t,
                                  !.message = input.message, !.severity = severityOf(input)]
                   ELSE e : e \in @}],
        status |-> "ok", id |-> existing]
  ELSE IF ErrorsHashUnique(db.errors, hashOf(input))
  THEN [db |-> db, status |-> "throw", id |-> NoId]
  ELSE LET errorId == db.seq.errors + 1
           row == [id |-> errorId, hash |-> hashOf(input), message |-> input.message,
                   normalizedMessage |-> normalizeErrorMessage(input.message),
                   errorType |-> errorTypeOf(input), severity |-> severityOf(input),
                   stackTrace |-> input.stackTrace, filePath |-> input.filePath,
                   projectName |-> input.projectName, occurrenceCount |-> 1,
                   firstSeenAt |-> t, lastSeenAt |-> t]
           db1 == [db EXCEPT !.errors = @ \cup {row}, !.seq.errors = errorId]
           allTags == Dedupe(input.tags \o extractTags(input.message, errorTypeOf(input)))
           tg == getOrCreateTags(db1, allTags)
           lk == addTagsToError(tg.db, errorId, tg.ids)
       IN [db |-> lk.db, status |-> lk.status, id |-> errorId]

\* the UPDATE branch, or the INSERT branch with its tags
recordErrorWrite(db, input, existing, t) ==
  IF existing # NoId
  THEN [db |-> [db EXCEPT !.errors =
                  {IF e.id = existing
                   THEN [e EXCEPT !.occurrenceCount = @ + 1, !.lastSeenAt = t]
                   ELSE e : e \in @}],
        status |-> "ok", id |-> existing]
  ELSE IF ErrorsHashUnique(db.errors, hashOf(input))
  THEN [db |-> db, status |-> "throw", id |-> NoId]
  ELSE LET errorId == db.seq.errors + 1
           row == [id |-> errorId, hash |-> hashOf(input), message |-> input.message,
                   normalizedMessage |-> normalizeErrorMessage(input.message),
                   errorType |-> errorTypeOf(input), severity |-> severityOf(input),
                   stackTrace |-> input.stackTrace, filePath |-> input.filePath,
                   projectName |-> input.projectName, occurrenceCount |-> 1,
                   firstSeenAt |-> t, lastSeenAt |-> t]
           db1 == [db EXCEPT !.errors = @ \cup {row}, !.seq.errors = errorId]
           allTags == Dedupe(input.tags \o extractTags(input.message, errorTypeOf(input)))
           tg == getOrCreateTags(db1, allTags)
           lk == addTagsToError(tg.db, errorId, tg.ids)
       IN [db |-> lk.db, status |-> lk.status, id |-> errorId]

recordError(db, input, t) == recordErrorWrite(db, input, recordErrorSelect(db, input), t)

deleteError(db, id) ==
  [db |-> [db EXCEPT !.errors = {e \in @ : e.id # id},
                     !.solutions = IF ErrorExists(db.errors, id) THEN Cascade(@, id) ELSE @,
                     !.errorTags = IF ErrorExists(db.errors, id) THEN Cascade(@, id) ELSE @,
                     !.embeddings = IF ErrorExists(db.errors, id) THEN Cascade(@, id) ELSE @],
   status |-> "ok", id |-> IF ErrorExists(db.errors, id) THEN id ELSE NoId]

(***************************************************************************)
(* solution-service.ts                                                     *)
(***************************************************************************)
recordSolution(db, input) ==
  IF ~ErrorExists(db.errors, input.errorId)
  THEN [db |-> db, status |-> "throw", id |-> NoId]
  ELSE LET solutionId == db.seq.solutions + 1
           row == [id |-> solutionId, errorId |-> input.errorId, content |-> input.content,
                   successCount |-> 0, failureCount |-> 0,
                   successRate |-> success_rate(0, 0), source |-> input.source]
       IN [db |-> [db EXCEPT !.solutions = @ \cup {row}, !.seq.solutions = solutionId],
           status |-> "ok", id |-> solutionId]

recordSolutionOutcome_BothCounters(db, solutionId, success) ==
  IF ~\E s \in db.solutions : s.id = solutionId
  THEN [db |-> db, status |-> "throw", id |-> NoId]
  ELSE [db |-> [db EXCEPT !.solutions =
                  {IF s.id = solutionId
                   THEN [s EXCEPT !.successCount = @ + 1,
                                  !.failureCount = IF success THEN @ ELSE @ + 1,
                                  !.successRate = success_rate(s.successCount + 1,
                                       s.failureCount + (IF success THEN 0 ELSE 1))]
                   ELSE s : s \in @}],
        status |-> "ok", id |-> NoId]

\* UPDATE solutions SET <column> = <column> + 1 WHERE id = ?; the generated
\* column follows the counters
recordSolutionOutcome(db, solutionId, success) ==
  IF ~\E s \in db.solutions : s.id = solutionId
  THEN [db |-> db, status |-> "throw", id |-> NoId]
  ELSE [db |-> [db EXCEPT !.solutions =
                  {IF s.id = solutionId
                   THEN IF success
                        THEN [s EXCEPT !.successCount = @ + 1,
                                       !.successRate = success_rate(s.successCount + 1, s.failureCount)]
                        ELSE [s EXCEPT !.failureCount = @ + 1,
                                       !.successRate = success_rate(s.successCount, s.failureCount + 1)]
                   ELSE s : s \in @}],
        status |-> "ok", id |-> NoId]

(***************************************************************************)
(* embedding-service.ts                                                    *)
(***************************************************************************)
\* INSERT INTO embeddings ... ON CONFLICT(error_id) DO UPDATE SET ...
upsertEmbedding_InsertOnly(db, errorId, embedding, model) ==
  IF ForeignKeysOn /\ ~ErrorExists(db.errors, errorId)
  THEN [db |-> db, status |-> "throw"]
  ELSE IF \E r \in db.embeddings : r.errorId = errorId
  THEN [db |-> db, status |-> "ok"]
  ELSE [db |-> [db EXCEPT !.embeddings = @ \cup
                  {[errorId |-> errorId, embedding |-> floatArrayToBuffer(embedding),
                    model |-> model, dimensions |-> Len(embedding)]}],
        status |-> "ok"]

upsertEmbedding(db, errorId, embedding, model) ==
  IF ForeignKeysOn /\ ~ErrorExists(db.errors, errorId)
  THEN [db |-> db, status |-> "throw"]
  ELSE [db |-> [db EXCEPT !.embeddings =
                  {r \in @ : r.errorId # errorId} \cup
                  {[errorId |-> errorId, embedding |-> floatArrayToBuffer(embedding),
                    model |-> model, dimensions |-> Len(embedding)]}],
        status |-> "ok"]

storeEmbedding(db, errorId, embedding, model) ==
  IF ~ErrorExists(db.errors, errorId)
  THEN [db |-> db, status |-> "throw"]
  ELSE upsertEmbedding(db, errorId, embedding, model)

\* DELETE FROM embeddings WHERE error_id = ?; returns changes > 0
deleteEmbedding(db, errorId) ==
  [db |-> [db EXCEPT !.embeddings = {r \in @ : r.errorId # errorId}],
   status |-> "ok",
   changed |-> \E r \in db.embeddings : r.errorId = errorId]

\* the statements of the batch in order, stopping at the first that throws
RECURSIVE batchInsert(_, _, _)
batchInsert(db, items, model) ==
  IF items = <<>> THEN [db |-> db, status |-> "ok"]
  ELSE LET r == upsertEmbedding(db, Head(items).errorId, Head(items).embedding, model)
       IN IF r.status = "throw" THEN r ELSE batchInsert(r.db, Tail(items), model)

batchStoreEmbeddings_NoTransaction(db, items, model) == batchInsert(db, items, model)

\* db.transaction(...): a throw inside rolls the whole batch back
batchStoreEmbeddings(db, items, model) ==
  LET r == batchInsert(db, items, model)
  IN IF r.status = "throw" THEN [db |-> db, status |-> "throw"] ELSE r

(***************************************************************************)
(* Reading.  The order in which a SELECT yields rows that its ORDER BY     *)
(* does not separate is not fixed by SQL: a scan is one order in which the *)
(* tables can come back, and every query of a call reads through it.       *)
(***************************************************************************)
RECURSIVE Perms(_)
Perms(S) ==
  IF S = {} THEN {<<>>}
  ELSE UNION {{<<x>> \o p : p \in Perms(S \ {x})} : x \in S}

\* the orders ORDER BY last_seen_at DESC allows for a set of error rows
RECURSIVE ByLastSeen(_)
ByLastSeen(S) ==
  IF S = {} THEN {<<>>}
  ELSE UNION {{<<x>> \o p : p \in ByLastSeen(S \ {x})} :
                x \in {y \in S : \A z \in S : y.lastSeenAt >= z.lastSeenAt}}

RanksBefore_Any(x, y) == TRUE

\* ORDER BY success_rate DESC, success_count DESC: may x come before y
RanksBefore(x, y) ==
  /\ FracGeq(x.successRate, y.successRate)
  /\ x.successRate = y.successRate => x.successCount >= y.successCount

\* the orders that ORDER BY allows for a set of solution rows
RECURSIVE BySuccess(_)
BySuccess(S) ==
  IF S = {} THEN {<<>>}
  ELSE UNION {{<<x>> \o p : p \in BySuccess(S \ {x})} :
                x \in {y \in S : \A z \in S : RanksBefore(y, z)}}

Scans(db) ==
  [errors : ByLastSeen(db.errors),
   embeddings : Perms(db.embeddings),
   solutions : BySuccess(db.solutions)]

\* Array.prototype.slice(0, n)
slice(xs, n) ==
  IF n >= 0 THEN SubSeq(xs, 1, IF n < Len(xs) THEN n ELSE Len(xs))
  ELSE SubSeq(xs, 1, IF Len(xs) + n > 0 THEN Len(xs) + n ELSE 0)

\* LIMIT n: a negative n is no limit
Limit(xs, n) == IF n < 0 THEN xs ELSE slice(xs, n)

\* x || d for a number, and for a score that may be undefined (<<>>)
OrElse(x, d) == IF x = 0 THEN d ELSE x
ScoreOrElse(x, d) == IF x = <<>> \/ x[1] = 0 THEN d ELSE x

\* Array.prototype.sort((a, b) => (b.similarity || 0) - (a.similarity || 0)),
\* which is stable
RECURSIVE sortBySimilarity(_)
sortBySimilarity(xs) ==
  IF xs = <<>> THEN <<>>
  ELSE LET x == xs[Len(xs)]
           sorted == sortBySimilarity(SubSeq(xs, 1, Len(xs) - 1))
           key(e) == ScoreOrElse(e.similarity, <<0, 1>>)
           ahead == {i \in DOMAIN sorted : FracGeq(key(sorted[i]), key(x))}
           k == IF ahead = {} THEN 0 ELSE CHOOSE i \in ahead : \A j \in ahead : j <= i
       IN SubSeq(sorted, 1, k) \o <<x>> \o SubSeq(sorted, k + 1, Len(sorted))

\* SELECT t.* FROM tags t INNER JOIN error_tags ... ORDER BY t.name ASC, as
\* the set of names
getTagsByErrorId(db, errorId) ==
  {t.name : t \in {u \in db.tags : [errorId |-> errorId, tagId |-> u.id] \in db.errorTags}}

\* the rows SELECT * FROM solutions WHERE error_id = ? ORDER BY ... yields
getSolutionsForError(scan, errorId) ==
  LET mine(r) == r.errorId = errorId
  IN SelectSeq(scan.solutions, mine)

\* the same query with LIMIT 1: the row in a sequence, which is empty when
\* the function returns null
getBestSolutionForError(scan, errorId) == Limit(getSolutionsForError(scan, errorId), 1)

\* the search options not given
NoOptions ==
  [limit |-> 0, minSimilarity |-> <<>>, tags |-> <<>>, projectName |-> "",
   errorType |-> "", severity |-> "", includeEmbeddings |-> TRUE]

\* the WHERE clause built from the filters that are given
MatchesFilters(e, options) ==
  /\ options.projectName # "" => e.projectName = options.projectName
  /\ options.errorType # "" => e.errorType = options.errorType
  /\ options.severity # "" => e.severity = options.severity

\* getErrorByHash of the hash of the message: the rows found, none or one
findErrorByMessage(db, message, errorType) ==
  LET type == IF errorType # "" THEN errorType ELSE extractErrorType(message)
  IN {e \in db.errors : e.hash = generateErrorHash(message, type)}

\* options.limit and options.minSimilarity are given here as numbers, the
\* defaults 10 and 0.3 being applied by the caller's destructuring
findSimilarErrors(db, scan, message, options) ==
  LET exactMatch == findErrorByMessage(db, message, "")
      candidate(e) == MatchesFilters(e, options)
      rows == Limit(SelectSeq(scan.errors, candidate), options.limit * 5)
      normalizedSearch == normalizeErrorMessage(message)
      scored == [i \in DOMAIN rows |->
                   [error |-> rows[i],
                    tags |-> getTagsByErrorId(db, rows[i].id),
                    similarity |-> combinedSimilarity(normalizedSearch, rows[i].normalizedMessage)]]
      enough(r) == FracGeq(r.similarity, options.minSimilarity)
  IN IF exactMatch # {}
     THEN LET e == CHOOSE x \in exactMatch : TRUE
          IN <<[error |-> e, tags |-> getTagsByErrorId(db, e.id), similarity |-> One]>>
     ELSE slice(sortBySimilarity(SelectSeq(scored, enough)), options.limit)

dimensionsMatch_Always(embedding, targetEmbedding) == TRUE

\* if (embedding.length !== targetEmbedding.length) continue
dimensionsMatch(embedding, targetEmbedding) == Len(embedding) = Len(targetEmbedding)

findSimilarByEmbedding(db, scan, targetEmbedding, limit, minSimilarity) ==
  LET comparable(row) == dimensionsMatch(bufferToFloatArray(row.embedding), targetEmbedding)
      rows == SelectSeq(scan.embeddings, comparable)
      compared == [i \in DOMAIN rows |->
                     [errorId |-> rows[i].errorId,
                      cosine |-> cosineSimilarity(targetEmbedding, bufferToFloatArray(rows[i].embedding))]]
      enough(r) == FracGeq(r.cosine.value, minSimilarity)
      kept == SelectSeq(compared, enough)
      results == [i \in DOMAIN kept |-> [errorId |-> kept[i].errorId, similarity |-> kept[i].cosine.value]]
      sorted == slice(sortBySimilarity(results), limit)
      found(r) == ErrorExists(db.errors, r.errorId)
      full == SelectSeq(sorted, found)
  IN IF \E i \in DOMAIN compared : compared[i].cosine.status = "throw"
     THEN [status |-> "throw", results |-> <<>>]
     ELSE [status |-> "ok",
           results |-> [i \in DOMAIN full |->
                          LET e == CHOOSE x \in db.errors : x.id = full[i].errorId
                          IN [error |-> e, tags |-> getTagsByErrorId(db, e.id),
                              similarity |-> full[i].similarity]]]

pushUnseen_All(results, found) == results \o found

\* for (const result of found) if (!seenIds.has(result.error.id)) { ... push }
RECURSIVE pushUnseen(_, _)
pushUnseen(results, found) ==
  IF found = <<>> THEN results
  ELSE IF \E i \in DOMAIN results : results[i].error.id = Head(found).error.id
       THEN pushUnseen(results, Tail(found))
       ELSE pushUnseen(Append(results, Head(found)), Tail(found))

\* the semantic strategy of findSimilar: what the try block pushes.  sem says
\* whether the strategy ran and what generate() did
semanticResults(db, scan, options, sem) ==
  IF ~sem.ran \/ ~sem.gen.ok THEN <<>>
  ELSE LET r == findSimilarByEmbedding(db, scan, sem.gen.vector,
                                       OrElse(options.limit, 5),
                                       ScoreOrElse(options.minSimilarity, <<7, 10>>))
       IN [i \in DOMAIN r.results |->
             [error |-> r.results[i].error, tags |-> r.results[i].tags,
              solutions |-> getSolutionsForError(scan, r.results[i].error.id),
              similarity |-> r.results[i].similarity, matchType |-> "semantic"]]

\* the text strategy of findSimilar, given how many results precede it
textResults(db, scan, errorMessage, options, preceding) ==
  LET r == findSimilarErrors(db, scan, errorMessage,
             [options EXCEPT !.limit = OrElse(options.limit, 10) - preceding,
                             !.minSimilarity = IF @ = <<>> THEN <<3, 10>> ELSE @])
  IN [i \in DOMAIN r |->
        [error |-> r[i].error, tags |-> r[i].tags,
         solutions |-> getSolutionsForError(scan, r[i].error.id),
         similarity |-> r[i].similarity,
         matchType |-> IF r[i].similarity = One THEN "exact" ELSE "hash"]]

findSimilar_NoSort(db, scan, errorMessage, options, sem) ==
  LET semantic == pushUnseen(<<>>, semanticResults(db, scan, options, sem))
      text == textResults(db, scan, errorMessage, options, Len(semantic))
  IN pushUnseen(semantic, text)

findSimilar(db, scan, errorMessage, options, sem) ==
  LET semantic == pushUnseen(<<>>, semanticResults(db, scan, options, sem))
      text == textResults(db, scan, errorMessage, options, Len(semantic))
  IN slice(sortBySimilarity(pushUnseen(semantic, text)), OrElse(options.limit, 10))

\* SELECT DISTINCT e.* FROM errors e [JOIN ... tags] WHERE ... ORDER BY
\* e.last_seen_at DESC LIMIT ?
searchErrors(db, scan, options) ==
  LET wanted == {toLowerCase(options.tags[i]) : i \in DOMAIN options.tags}
      selected(e) ==
        /\ options.tags # <<>> =>
             \E n \in getTagsByErrorId(db, e.id) : toLowerCase(n) \in wanted
        /\ MatchesFilters(e, options)
  IN Limit(SelectSeq(scan.errors, selected), OrElse(options.limit, 20))

findByTags(db, scan, tagNames) ==
  LET found == searchErrors(db, scan, [NoOptions EXCEPT !.tags = tagNames])
  IN [i \in DOMAIN found |->
        [error |-> found[i], tags |-> getTagsByErrorId(db, found[i].id),
         solutions |-> getSolutionsForError(scan, found[i].id),
         similarity |-> <<>>, matchType |-> "tag"]]

\* Math.round of a fraction that is not negative
round(x) == (2 * x[1] + x[2]) \div (2 * x[2])

\* formatSuccessInfo: the tier its emoji stands for, or that the solution is
\* untested
formatSuccessInfo(solution) ==
  LET total == solution.successCount + solution.failureCount
      percentage == round(FracMul(solution.successRate, <<100, 1>>))
  IN IF total = 0 THEN "untested"
     ELSE IF percentage >= 80 THEN "good"
     ELSE IF percentage >= 50 THEN "caution"
     ELSE "poor"

\* the words of extractContextKeywords' stop list that are atoms here
stopWords == {"at"}

\* the keywords of the context, in order and without repetition: its words
\* lower-cased, longer than two characters and off the stop list
extractContextKeywords(context) ==
  LET text == LowerAll(context.featureTitle \o <<" ">> \o context.errorMessage)
      word(a) == ~IsSpace(a) /\ Len(Chars(a)) > 2 /\ a \notin stopWords
  IN Dedupe(SelectSeq(text, word))

\* solutions.reduce((best, s) => s.successRate > best.successRate ? s : best)
RECURSIVE bestSolution(_)
bestSolution(sols) ==
  IF Len(sols) = 1 THEN sols[1]
  ELSE LET best == bestSolution(SubSeq(sols, 1, Len(sols) - 1))
           s == sols[Len(sols)]
       IN IF FracGeq(s.successRate, best.successRate) /\ s.successRate # best.successRate
          THEN s ELSE best

calculateResultScore(result) ==
  LET base == FracMul(ScoreOrElse(result.similarity, <<0, 1>>), <<40, 1>>)
      best == bestSolution(result.solutions)
      totalAttempts == best.successCount + best.failureCount
  IN IF result.solutions = <<>> THEN base
     ELSE FracAdd(FracAdd(base, <<20, 1>>),
                  FracAdd(FracMul(best.successRate, <<30, 1>>),
                          <<IF totalAttempts * 2 < 10 THEN totalAttempts * 2 ELSE 10, 1>>))

sortByScore_Unsorted(xs) == xs

\* results.sort((a, b) => calculateResultScore(b) - calculateResultScore(a))
RECURSIVE sortByScore(_)
sortByScore(xs) ==
  IF xs = <<>> THEN <<>>
  ELSE LET x == xs[Len(xs)]
           sorted == sortByScore(SubSeq(xs, 1, Len(xs) - 1))
           ahead == {i \in DOMAIN sorted :
                       FracGeq(calculateResultScore(sorted[i]), calculateResultScore(x))}
           k == IF ahead = {} THEN 0 ELSE CHOOSE i \in ahead : \A j \in ahead : j <= i
       IN SubSeq(sorted, 1, k) \o <<x>> \o SubSeq(sorted, k + 1, Len(sorted))

\* the results getRelevantMemories has pushed before it sorts, given the
\* result of its findSimilar call
relevantCandidates(db, scan, context, errorResults) ==
  LET byMessage == pushUnseen(<<>>, errorResults)
      byTags == IF context.tags # <<>>
                THEN pushUnseen(byMessage, slice(findByTags(db, scan, context.tags), 3))
                ELSE byMessage
      keywords == extractContextKeywords(context)
  IN IF keywords # <<>>
     THEN pushUnseen(byTags, slice(findByTags(db, scan, slice(keywords, 5)), 3))
     ELSE byTags

\* getRelevantMemories from the result of its findSimilar call on: the
\* relevantErrors of the context it builds
getRelevantMemories(db, scan, context, errorResults) ==
  slice(sortByScore(relevantCandidates(db, scan, context, errorResults)), 5)


(***************************************************************************)
(* connection.ts: the singleton, migrations and schema validation.         *)
(***************************************************************************)
isDatabaseInitialized == dbInstance # NoId

\* getSchemaVersion; applyInitialSchema on version 0; the version checks
runMigrations(d) ==
  IF d.version = 0
  THEN [disk |-> [version |-> 1, tables |-> TRUE], status |-> "ok"]
  ELSE IF d.version = CURRENT_SCHEMA_VERSION THEN [disk |-> d, status |-> "ok"]
  ELSE IF d.version > CURRENT_SCHEMA_VERSION THEN [disk |-> d, status |-> "throw"]
  ELSE [disk |-> [d EXCEPT !.version = CURRENT_SCHEMA_VERSION], status |-> "ok"]

validateSchema(d) == d.tables

Result(op, status, id) == [op |-> op, status |-> status, id |-> id]
Failure(op, error) == [op |-> op, status |-> "throw", id |-> NoId, error |-> error]

\* initializeDatabase up to its await: the singleton test, dbPath
InitializeDatabaseBegin(c) ==
  /\ initPc[c] = "idle"
  /\ IF dbInstance # NoId
     THEN /\ last' = Result("initializeDatabase", "ok", dbInstance)
          /\ UNCHANGED <<dbPath, initPc>>
     ELSE /\ dbPath' = "memory.db"
          /\ initPc' = [initPc EXCEPT ![c] = "mkdir"]
          /\ last' = NoCall
  /\ UNCHANGED <<dbInstance, disk, handles, nextConn>>
  /\ UNCHANGED <<storeVars, svcVars, now, inflight>>

\* await fs.mkdir rejects
InitializeDatabaseMkdirFails(c) ==
  /\ initPc[c] = "mkdir"
  /\ initPc' = [initPc EXCEPT ![c] = "idle"]
  /\ last' = Failure("initializeDatabase", "mkdir")
  /\ UNCHANGED <<dbInstance, dbPath, disk, handles, nextConn>>
  /\ UNCHANGED <<storeVars, svcVars, now, inflight>>

\* initializeDatabase after its await: open, pragmas, migrate, validate
InitializeDatabaseOpen(c) ==
  /\ initPc[c] = "mkdir"
  /\ nextConn <= MaxConn
  /\ initPc' = [initPc EXCEPT ![c] = "idle"]
  /\ dbInstance' = nextConn
  /\ handles' = handles \cup {nextConn}
  /\ nextConn' = nextConn + 1
  /\ LET m == runMigrations(disk)
     IN /\ disk' = m.disk
        /\ last' = IF m.status = "throw"
                   THEN Failure("initializeDatabase", "version")
                   ELSE IF ~validateSchema(m.disk)
                   THEN Failure("initializeDatabase", "schema")
                   ELSE Result("initializeDatabase", "ok", nextConn)
  /\ UNCHANGED dbPath
  /\ UNCHANGED <<storeVars, svcVars, now, inflight>>

CloseDatabase ==
  /\ IF dbInstance # NoId
     THEN /\ handles' = handles \ {dbInstance}
          /\ dbInstance' = NoId
          /\ dbPath' = NULL
     ELSE UNCHANGED <<handles, dbInstance, dbPath>>
  /\ last' = Result("closeDatabase", "ok", dbInstance)
  /\ UNCHANGED <<disk, nextConn, initPc>>
  /\ UNCHANGED <<storeVars, svcVars, now, inflight>>

\* getDatabase, as every store operation begins
GetDatabase ==
  /\ last' = IF dbInstance = NoId THEN Failure("getDatabase", "not initialized")
             ELSE Result("getDatabase", "ok", dbInstance)
  /\ UNCHANGED connVars
  /\ UNCHANGED <<storeVars, svcVars, now, inflight>>


(***************************************************************************)
(* memory-service.ts: the exposed mutations.  A call runs to completion    *)
(* unless it awaits; captureError awaits the embedding provider.           *)
(***************************************************************************)
OccurrencesOf(id) == (CHOOSE e \in errors : e.id = id).occurrenceCount

WithinBounds(input, existing) ==
  IF existing # NoId /\ ErrorExists(errors, existing)
  THEN OccurrencesOf(existing) < MaxOccurrences
  ELSE existing # NoId \/ seq.errors < MaxErrorId

\* captureError up to its await: recordError, then the embedding test
CaptureError(w, input) ==
  /\ isDatabaseInitialized
  /\ inflight[w] = Idle
  /\ WithinBounds(input, recordErrorSelect(Db, input))
  /\ LET r == recordError(Db, input, now)
     IN /\ Commit(r.db)
        /\ IF r.status = "ok" /\ config.enableEmbeddings /\ embeddingGenerator # NULL
           THEN /\ inflight' = [inflight EXCEPT ![w] = [pc |-> "embed", input |-> input, errorId |-> r.id]]
                /\ last' = NoCall
           ELSE /\ inflight' = inflight
                /\ last' = Result("captureError", r.status, r.id)
  /\ UNCHANGED <<svcVars, now, connVars>>

CaptureErrorEmbed_NoCatch(w, gen) ==
  /\ isDatabaseInitialized
  /\ inflight[w].pc = "embed"
  /\ LET r == IF ~gen.ok THEN [db |-> Db, status |-> "throw"]
              ELSE storeEmbedding(Db, inflight[w].errorId, gen.vector, embeddingGenerator)
     IN /\ Commit(r.db)
        /\ last' = Result("captureError", r.status, inflight[w].errorId)
  /\ inflight' = [inflight EXCEPT ![w] = Idle]
  /\ UNCHANGED <<svcVars, now, connVars>>

\* captureError after its await: the provider resolved with a vector or
\* rejected; storeEmbedding inside the try; return errorId
CaptureErrorEmbed(w, gen) ==
  /\ isDatabaseInitialized
  /\ inflight[w].pc = "embed"
  /\ LET r == IF ~gen.ok THEN [db |-> Db, status |-> "throw"]
              ELSE storeEmbedding(Db, inflight[w].errorId, gen.vector, embeddingGenerator)
     IN /\ Commit(r.db)
        /\ last' = Result("captureError", "ok", inflight[w].errorId)
  /\ inflight' = [inflight EXCEPT ![w] = Idle]
  /\ UNCHANGED <<svcVars, now, connVars>>

\* recordError of a second connection, statement by statement
RecordErrorSelect(w, input) ==
  /\ isDatabaseInitialized
  /\ inflight[w] = Idle
  /\ inflight' = [inflight EXCEPT ![w] =
                    [pc |-> "write", input |-> input, existing |-> recordErrorSelect(Db, input)]]
  /\ last' = NoCall
  /\ UNCHANGED <<storeVars, svcVars, now, connVars>>

RecordErrorWrite(w) ==
  /\ isDatabaseInitialized
  /\ inflight[w].pc = "write"
  /\ WithinBounds(inflight[w].input, inflight[w].existing)
  /\ LET r == recordErrorWrite(Db, inflight[w].input, inflight[w].existing, now)
     IN /\ Commit(r.db)
        /\ last' = Result("recordError", r.status, r.id)
  /\ inflight' = [inflight EXCEPT ![w] = Idle]
  /\ UNCHANGED <<svcVars, now, connVars>>

DeleteError(id) ==
  /\ isDatabaseInitialized
  /\ LET r == deleteError(Db, id)
     IN /\ Commit(r.db)
        /\ last' = Result("deleteError", r.status, r.id)
  /\ UNCHANGED <<svcVars, now, inflight, connVars>>

CaptureSolution(input) ==
  /\ isDatabaseInitialized
  /\ seq.solutions < MaxSolutionId
  /\ LET r == recordSolution(Db, input)
     IN /\ Commit(r.db)
        /\ last' = Result("captureSolution", r.status, r.id)
  /\ UNCHANGED <<svcVars, now, inflight, connVars>>

ReportOutcome(solutionId, success) ==
  /\ isDatabaseInitialized
  /\ \A s \in solutions : s.id = solutionId => s.successCount + s.failureCount < MaxAttempts
  /\ LET r == recordSolutionOutcome(Db, solutionId, success)
     IN /\ Commit(r.db)
        /\ last' = Result("reportOutcome", r.status, solutionId)
  /\ UNCHANGED <<svcVars, now, inflight, connVars>>

TagError(errorId, names) ==
  /\ isDatabaseInitialized
  /\ LET r == tagError(Db, errorId, names)
     IN /\ Commit(r.db)
        /\ last' = Result("tagError", r.status, errorId)
  /\ UNCHANGED <<svcVars, now, inflight, connVars>>

GetOrCreateTags(names) ==
  /\ isDatabaseInitialized
  /\ LET r == getOrCreateTags(Db, names)
     IN /\ Commit(r.db)
        /\ last' = [op |-> "getOrCreateTags", status |-> "ok", id |-> NoId,
                    names |-> names, ids |-> r.ids]
  /\ UNCHANGED <<svcVars, now, inflight, connVars>>

AddTagsToError(errorId, tagIds) ==
  /\ isDatabaseInitialized
  /\ LET r == addTagsToError(Db, errorId, tagIds)
     IN /\ Commit(r.db)
        /\ last' = [op |-> "addTagsToError", status |-> r.status, id |-> errorId,
                    tagIds |-> tagIds]
  /\ UNCHANGED <<svcVars, now, inflight, connVars>>

SetErrorTags(errorId, tagIds) ==
  /\ isDatabaseInitialized
  /\ LET r == setErrorTags(Db, errorId, tagIds)
     IN /\ Commit(r.db)
        /\ last' = Result("setErrorTags", r.status, errorId)
  /\ UNCHANGED <<svcVars, now, inflight, connVars>>

StoreEmbedding(errorId, embedding) ==
  /\ isDatabaseInitialized
  /\ LET r == storeEmbedding(Db, errorId, embedding, ManualModel)
     IN /\ Commit(r.db)
        /\ last' = Result("storeEmbedding", r.status, errorId)
  /\ UNCHANGED <<svcVars, now, inflight, connVars>>

DeleteEmbedding(errorId) ==
  /\ isDatabaseInitialized
  /\ LET r == deleteEmbedding(Db, errorId)
     IN /\ Commit(r.db)
        /\ last' = [op |-> "deleteEmbedding", status |-> r.status, id |-> errorId,
                    changed |-> r.changed]
  /\ UNCHANGED <<svcVars, now, inflight, connVars>>

BatchStoreEmbeddings(items) ==
  /\ isDatabaseInitialized
  /\ LET r == batchStoreEmbeddings(Db, items, ManualModel)
     IN /\ Commit(r.db)
        /\ last' = [op |-> "batchStoreEmbeddings", status |-> r.status, id |-> NoId, items |-> items]
  /\ UNCHANGED <<svcVars, now, inflight, connVars>>

SetEmbeddingGenerator ==
  /\ embeddingGenerator = NULL
  /\ embeddingGenerator' = GeneratorModel
  /\ last' = NoCall
  /\ UNCHANGED <<storeVars, config, now, inflight, connVars>>

\* the wall clock behind datetime('now')
Tick ==
  /\ now < MaxClock
  /\ now' = now + 1
  /\ last' = NoCall
  /\ UNCHANGED <<storeVars, svcVars, inflight, connVars>>

(***************************************************************************)
(* memory-service.ts: the searches.  findSimilar awaits the embedding      *)
(* provider when the semantic strategy is on.                              *)
(***************************************************************************)
semanticOn(options) ==
  config.enableEmbeddings /\ embeddingGenerator # NULL /\ options.includeEmbeddings

Found(op, status, query, options, sem, scan, results) ==
  [op |-> op, status |-> status, query |-> query, options |-> options,
   sem |-> sem, scan |-> scan, results |-> results]

\* findSimilar up to its await, or to its end when the semantic strategy is
\* off
FindSimilar(w, errorMessage, options) ==
  /\ isDatabaseInitialized
  /\ inflight[w] = Idle
  /\ IF semanticOn(options)
     THEN /\ inflight' = [inflight EXCEPT ![w] =
                            [pc |-> "search", errorMessage |-> errorMessage, options |-> options]]
          /\ last' = NoCall
     ELSE /\ inflight' = inflight
          /\ \E scan \in Scans(Db) :
               last' = Found("findSimilar", "ok", errorMessage, options, [ran |-> FALSE], scan,
                             findSimilar(Db, scan, errorMessage, options, [ran |-> FALSE]))
  /\ UNCHANGED <<storeVars, svcVars, now, connVars>>

FindSimilarEmbed_NoCatch(w, gen) ==
  /\ isDatabaseInitialized
  /\ inflight[w].pc = "search"
  /\ inflight' = [inflight EXCEPT ![w] = Idle]
  /\ \E scan \in Scans(Db) :
       last' = IF gen.ok
               THEN Found("findSimilar", "ok", inflight[w].errorMessage, inflight[w].options,
                          [ran |-> TRUE, gen |-> gen], scan,
                          findSimilar(Db, scan, inflight[w].errorMessage, inflight[w].options,
                                      [ran |-> TRUE, gen |-> gen]))
               ELSE Found("findSimilar", "throw", inflight[w].errorMessage, inflight[w].options,
                          [ran |-> TRUE, gen |-> gen], scan, <<>>)
  /\ UNCHANGED <<storeVars, svcVars, now, connVars>>

\* findSimilar after its await: generate() resolved with a vector or
\* rejected inside the try
FindSimilarEmbed(w, gen) ==
  /\ isDatabaseInitialized
  /\ inflight[w].pc = "search"
  /\ inflight' = [inflight EXCEPT ![w] = Idle]
  /\ \E scan \in Scans(Db) :
       last' = Found("findSimilar", "ok", inflight[w].errorMessage, inflight[w].options,
                     [ran |-> TRUE, gen |-> gen], scan,
                     findSimilar(Db, scan, inflight[w].errorMessage, inflight[w].options,
                                 [ran |-> TRUE, gen |-> gen]))
  /\ UNCHANGED <<storeVars, svcVars, now, connVars>>

\* the options getRelevantMemories hands to findSimilar
RelevantOptions == [NoOptions EXCEPT !.limit = 5, !.minSimilarity = <<1, 2>>]

\* getRelevantMemories up to the await of its findSimilar call, or to its
\* end when there is none
GetRelevantMemories(w, context) ==
  /\ isDatabaseInitialized
  /\ inflight[w] = Idle
  /\ IF context.errorMessage # <<>> /\ semanticOn(RelevantOptions)
     THEN /\ inflight' = [inflight EXCEPT ![w] = [pc |-> "relevant", context |-> context]]
          /\ last' = NoCall
     ELSE /\ inflight' = inflight
          /\ \E scan \in Scans(Db) :
               last' = Found("getRelevantMemories", "ok", context, RelevantOptions,
                             [ran |-> FALSE], scan,
                             getRelevantMemories(Db, scan, context,
                               IF context.errorMessage = <<>> THEN <<>>
                               ELSE findSimilar(Db, scan, context.errorMessage, RelevantOptions,
                                                [ran |-> FALSE])))
  /\ UNCHANGED <<storeVars, svcVars, now, connVars>>

GetRelevantMemoriesEmbed(w, gen) ==
  /\ isDatabaseInitialized
  /\ inflight[w].pc = "relevant"
  /\ inflight' = [inflight EXCEPT ![w] = Idle]
  /\ \E scan \in Scans(Db) :
       last' = Found("getRelevantMemories", "ok", inflight[w].context, RelevantOptions,
                     [ran |-> TRUE, gen |-> gen], scan,
                     getRelevantMemories(Db, scan, inflight[w].context,
                       findSimilar(Db, scan, inflight[w].context.errorMessage, RelevantOptions,
                                   [ran |-> TRUE, gen |-> gen])))
  /\ UNCHANGED <<storeVars, svcVars, now, connVars>>

GetSolutionsForError(errorId) ==
  /\ isDatabaseInitialized
  /\ \E scan \in Scans(Db) :
       last' = [op |-> "getSolutionsForError", status |-> "ok", id |-> errorId,
                results |-> getSolutionsForError(scan, errorId)]
  /\ UNCHANGED <<storeVars, svcVars, now, inflight, connVars>>

GetBestSolutionForError(errorId) ==
  /\ isDatabaseInitialized
  /\ \E scan \in Scans(Db) :
       last' = [op |-> "getBestSolutionForError", status |-> "ok", id |-> errorId,
                result |-> getBestSolutionForError(scan, errorId)]
  /\ UNCHANGED <<storeVars, svcVars, now, inflight, connVars>>

FindByTags(tagNames) ==
  /\ isDatabaseInitialized
  /\ \E scan \in Scans(Db) :
       last' = Found("findByTags", "ok", tagNames, NoOptions, [ran |-> FALSE], scan,
                     findByTags(Db, scan, tagNames))
  /\ UNCHANGED <<storeVars, svcVars, now, inflight, connVars>>

(***************************************************************************)
(* The pure utilities, called on their own.                                *)
(***************************************************************************)
NormalizeErrorMessage(message) ==
  /\ last' = [op |-> "normalizeErrorMessage", message |-> message,
              result |-> normalizeErrorMessage(message)]
  /\ UNCHANGED <<storeVars, svcVars, now, inflight, connVars>>

FormatSuccessInfo(successCount, failureCount) ==
  /\ last' = [op |-> "formatSuccessInfo", successCount |-> successCount,
              failureCount |-> failureCount,
              result |-> formatSuccessInfo(
                [successCount |-> successCount, failureCount |-> failureCount,
                 successRate |-> success_rate(successCount, failureCount), source |-> "agent"])]
  /\ UNCHANGED <<storeVars, svcVars, now, inflight, connVars>>

LevenshteinDistance(a, b) ==
  /\ last' = [op |-> "levenshteinDistance", a |-> a, b |-> b,
              result |-> levenshteinDistance(a, b)]
  /\ UNCHANGED <<storeVars, svcVars, now, inflight, connVars>>

(***************************************************************************)
(* Specifications.                                                         *)
(***************************************************************************)
\* what the provider's generate() does: resolve with a vector, or reject
Generated == {[ok |-> TRUE, vector |-> v] : v \in Vectors} \cup {[ok |-> FALSE]}
SolutionInputs == {[errorId |-> e, content |-> "fix", source |-> "agent"] : e \in ErrorIds}
TagLists == {<<"vue", "React">>}
TagIdLists == {<<>>, <<2, 9>>}
TagNameLists == {<<"React">>, <<"react", " React ">>, <<" ", "vue">>}
AddTagIdLists == {<<1>>, <<2, 2>>, <<1, 9>>}
Batches == {<<[errorId |-> a, embedding |-> <<1, 0>>], [errorId |-> b, embedding |-> <<0, 1, 2>>]>> :
              a \in ErrorIds, b \in ErrorIds}

InitStore ==
  /\ errors = {} /\ solutions = {} /\ tags = {} /\ errorTags = {} /\ embeddings = {}
  /\ seq = EmptyDb.seq
  /\ now = 0
  /\ inflight = [w \in Writers |-> Idle]
  /\ last = NoCall

InitOpened ==
  /\ dbInstance = 1 /\ dbPath = "memory.db" /\ handles = {1} /\ nextConn = 2
  /\ disk = [version |-> CURRENT_SCHEMA_VERSION, tables |-> TRUE]
  /\ initPc = [c \in Callers |-> "idle"]

\* one process, after initialize(options) succeeded on a fresh store
Init ==
  /\ InitStore
  /\ InitOpened
  /\ config \in {[enableEmbeddings |-> b] : b \in BOOLEAN}
  /\ embeddingGenerator = NULL

Tasks == {"w1"}

Next ==
  \/ \E w \in Tasks, input \in ErrorInputs : CaptureError(w, input)
  \/ \E w \in Tasks, gen \in Generated : CaptureErrorEmbed(w, gen)
  \/ \E id \in ErrorIds : DeleteError(id)
  \/ SetEmbeddingGenerator
  \/ Tick

Spec == Init /\ [][Next]_vars

\* the same store with embeddings switched off
InitPlain ==
  /\ InitStore
  /\ InitOpened
  /\ config = [enableEmbeddings |-> FALSE]
  /\ embeddingGenerator = NULL

\* two connections to one database file, each running recordError
NextRace ==
  \/ \E w \in Writers, input \in RaceInputs : RecordErrorSelect(w, input)
  \/ \E w \in Writers : RecordErrorWrite(w)
  \/ \E id \in ErrorIds : DeleteError(id)
  \/ Tick

SpecRace == InitPlain /\ [][NextRace]_vars

\* errors with their solutions, tag links and embeddings
NextStore ==
  \/ \E w \in Tasks, input \in StoreInputs : CaptureError(w, input)
  \/ \E id \in ErrorIds : DeleteError(id)
  \/ \E input \in SolutionInputs : CaptureSolution(input)
  \/ \E s \in SolutionIds, b \in BOOLEAN : ReportOutcome(s, b)
  \/ \E e \in ErrorIds, v \in {<<1, 0>>} : StoreEmbedding(e, v)

SpecStore == InitPlain /\ [][NextStore]_vars

\* tags and tag links
NextTags ==
  \/ \E w \in Tasks, input \in StoreInputs : CaptureError(w, input)
  \/ \E id \in ErrorIds : DeleteError(id)
  \/ \E e \in ErrorIds, names \in TagLists : TagError(e, names)
  \/ \E e \in ErrorIds, ids \in TagIdLists : SetErrorTags(e, ids)

SpecTags == InitPlain /\ [][NextTags]_vars

\* tags got or created by name and linked to errors
NextLinks ==
  \/ \E w \in Tasks, input \in StoreInputs : CaptureError(w, input)
  \/ \E e \in ErrorIds, names \in TagLists : TagError(e, names)
  \/ \E names \in TagNameLists : GetOrCreateTags(names)
  \/ \E e \in ErrorIds, ids \in AddTagIdLists : AddTagsToError(e, ids)

SpecLinks == InitPlain /\ [][NextLinks]_vars

\* embeddings written one by one and in batches
NextEmbeddings ==
  \/ \E w \in Tasks, input \in StoreInputs : CaptureError(w, input)
  \/ \E id \in ErrorIds : DeleteError(id)
  \/ \E e \in ErrorIds, v \in Vectors \cup WideVectors : StoreEmbedding(e, v)
  \/ \E e \in ErrorIds : DeleteEmbedding(e)
  \/ \E items \in Batches : BatchStoreEmbeddings(items)

SpecEmbeddings == InitPlain /\ [][NextEmbeddings]_vars

\* the connection singleton of one process over a database file
InitConn ==
  /\ InitStore
  /\ config = [enableEmbeddings |-> FALSE]
  /\ embeddingGenerator = NULL
  /\ dbInstance = NoId /\ dbPath = NULL /\ handles = {} /\ nextConn = 1
  /\ disk \in {[version |-> 0, tables |-> FALSE]} \cup
              {[version |-> v, tables |-> t] : v \in 1..(CURRENT_SCHEMA_VERSION + 1), t \in BOOLEAN}
  /\ initPc = [c \in Callers |-> "idle"]

NextConn ==
  \/ \E c \in Callers : InitializeDatabaseBegin(c)
  \/ \E c \in Callers : InitializeDatabaseMkdirFails(c)
  \/ \E c \in Callers : InitializeDatabaseOpen(c)
  \/ CloseDatabase
  \/ GetDatabase

SpecConn == InitConn /\ [][NextConn]_vars

\* capture and search in one process, a provider being set
StoredGenerated == {[ok |-> TRUE, vector |-> v] : v \in StoredVectors} \cup {[ok |-> FALSE]}
QueryGenerated == {[ok |-> TRUE, vector |-> v] : v \in QueryVectors} \cup {[ok |-> FALSE]}
SearchOptions ==
  {NoOptions,
   [NoOptions EXCEPT !.limit = 1],
   [NoOptions EXCEPT !.projectName = "p2"],
   [NoOptions EXCEPT !.errorType = "X"]}
Contexts ==
  {[errorMessage |-> MsgLine10, tags |-> <<"React">>, featureTitle |-> <<"React">>],
   [errorMessage |-> <<>>, tags |-> <<"X">>, featureTitle |-> <<>>]}

InitSearch ==
  /\ InitStore
  /\ InitOpened
  /\ config \in {[enableEmbeddings |-> b] : b \in BOOLEAN}
  /\ embeddingGenerator = GeneratorModel

NextSearch ==
  \/ \E w \in Tasks, input \in SearchInputs : CaptureError(w, input)
  \/ \E w \in Tasks, gen \in StoredGenerated : CaptureErrorEmbed(w, gen)
  \/ \E id \in ErrorIds : DeleteError(id)
  \/ \E w \in Tasks, q \in SearchQueries, o \in SearchOptions : FindSimilar(w, q, o)
  \/ \E w \in Tasks, gen \in QueryGenerated : FindSimilarEmbed(w, gen)
  \/ \E w \in Tasks, context \in Contexts : GetRelevantMemories(w, context)
  \/ \E w \in Tasks, gen \in QueryGenerated : GetRelevantMemoriesEmbed(w, gen)

SpecSearch == InitSearch /\ [][NextSearch]_vars

\* the store after k reports, captured one per clock tick
RECURSIVE Bulk(_)
\* (the categories are distinct, so each call inserts one row; the count is read
\* before the next call, as each call completes before the next begins)
Bulk(k) ==
  IF k = 0 THEN EmptyDb
  ELSE LET prev == Bulk(k - 1)
       IN  IF Cardinality(prev.errors) = k - 1
           THEN recordError(prev, BulkInput(k), k).db
           ELSE prev

\* a store of any size up to MaxBulk, searched by tag
InitTagged ==
  /\ \E k \in 0..MaxBulk :
       /\ errors = Bulk(k).errors /\ solutions = Bulk(k).solutions /\ tags = Bulk(k).tags
       /\ errorTags = Bulk(k).errorTags /\ embeddings = Bulk(k).embeddings
       /\ seq = Bulk(k).seq
       /\ now = k
  /\ inflight = [w \in Writers |-> Idle]
  /\ last = NoCall
  /\ InitOpened
  /\ config = [enableEmbeddings |-> FALSE]
  /\ embeddingGenerator = NULL

NextTagged ==
  \/ \E names \in TagQueries : FindByTags(names)
  \/ \E e \in ErrorIds, names \in TagLists : TagError(e, names)
  \/ \E id \in ErrorIds : DeleteError(id)

SpecTagged == InitTagged /\ [][NextTagged]_vars

\* a store of a few errors, their solutions tried and ranked
InitRanked ==
  /\ \E k \in RankedSizes :
       /\ errors = Bulk(k).errors /\ solutions = Bulk(k).solutions /\ tags = Bulk(k).tags
       /\ errorTags = Bulk(k).errorTags /\ embeddings = Bulk(k).embeddings
       /\ seq = Bulk(k).seq
       /\ now = k
  /\ inflight = [w \in Writers |-> Idle]
  /\ last = NoCall
  /\ InitOpened
  /\ config = [enableEmbeddings |-> FALSE]
  /\ embeddingGenerator = NULL

NextRanked ==
  \/ \E input \in RankedSolutionInputs : CaptureSolution(input)
  \/ \E s \in SolutionIds, b \in BOOLEAN : ReportOutcome(s, b)
  \/ \E e \in ErrorIds : GetSolutionsForError(e)
  \/ \E e \in ErrorIds : GetBestSolutionForError(e)
  \/ \E w \in Tasks, context \in RankedContexts : GetRelevantMemories(w, context)

SpecRanked == InitRanked /\ [][NextRanked]_vars

\* reports with colons in them
NextColon ==
  \/ \E w \in Tasks, input \in ColonInputs : CaptureError(w, input)
  \/ \E id \in ErrorIds : DeleteError(id)
  \/ Tick

SpecColon == InitPlain /\ [][NextColon]_vars

\* error-hash.ts and similarity.ts on their own
NextUtils ==
  \/ \E message \in Messages : NormalizeErrorMessage(message)
  \/ \E a \in Strings, b \in Strings : LevenshteinDistance(a, b)
  \/ \E n \in 0..MaxTried, k \in 0..MaxTried : k <= n /\ FormatSuccessInfo(k, n - k)

SpecUtils == InitPlain /\ [][NextUtils]_vars


(***************************************************************************)
(* Properties.                                                             *)
(***************************************************************************)

\* C1: in every state reachable by interleaved recordError and deleteError
\* calls of two connections, no two stored error records have the same
\* identity hash.
C1_HashUnique ==
  \A e1 \in errors, e2 \in errors : e1.hash = e2.hash => e1 = e2

\* a connection that saw no row is about to insert a hash that is now stored
C1_Witness ==
  \E w \in Writers :
    /\ inflight[w].pc = "write"
    /\ inflight[w].existing = NoId
    /\ \E e \in errors : e.hash = hashOf(inflight[w].input)

\* C2: insert-or-increment is one atomic step: two concurrent recordError
\* calls with the same fingerprint never both observe "not found", and no
\* recordError call fails on its insert.
C2_AtomicUpsert ==
  /\ \A w1 \in Writers, w2 \in Writers :
       (/\ w1 # w2
        /\ inflight[w1].pc = "write"
        /\ inflight[w2].pc = "write"
        /\ hashOf(inflight[w1].input) = hashOf(inflight[w2].input))
       => ~(inflight[w1].existing = NoId /\ inflight[w2].existing = NoId)
  /\ last.op = "recordError" => last.status = "ok"

\* the records of a category and normalized message
SameReport(es, input) ==
  {e \in es : /\ e.errorType = errorTypeOf(input)
              /\ e.normalizedMessage = normalizeErrorMessage(input.message)}

\* the id a captureError step hands on: returned, or held across the await
ReturnedId(w) == IF inflight'[w].pc = "embed" THEN inflight'[w].errorId ELSE last'.id

\* C3: every recordError call leaves exactly one record for its category and
\* normalized message and returns that record's id; the record is new with
\* occurrence count 1 when none existed, and otherwise the one that existed
\* with its occurrence count increased by 1 (so n calls in sequence without
\* a delete return one id and leave the count at n).
C3_SameFingerprintSameRecord ==
  [][\A w \in Tasks, input \in ErrorInputs :
       CaptureError(w, input) =>
         /\ Cardinality(SameReport(errors', input)) = 1
         /\ \A a \in SameReport(errors', input) :
              /\ a.id = ReturnedId(w)
              /\ SameReport(errors, input) = {} => a.occurrenceCount = 1
              /\ \A b \in SameReport(errors, input) :
                   a.id = b.id /\ a.occurrenceCount = b.occurrenceCount + 1]_vars

\* a repeated report came back with the id of the record it was counted on
C3_Witness ==
  /\ last.op = "captureError"
  /\ last.status = "ok"
  /\ \E e \in errors : e.id = last.id /\ e.occurrenceCount = 2


\* C4: every solution, tag link and embedding references an error record
\* that exists, and after a deleteError(id) that removed a record no
\* solution, tag link or embedding with error id `id` remains.
C4_NoOrphans ==
  /\ \A r \in solutions \cup errorTags \cup embeddings : ErrorExists(errors, r.errorId)
  /\ (last.op = "deleteError" /\ last.id # NoId) =>
       \A r \in solutions \cup errorTags \cup embeddings : r.errorId # last.id

\* the only error ever recorded was deleted, and its solution went with it
C4_Witness ==
  /\ last.op = "deleteError"
  /\ last.id # NoId
  /\ seq.errors = 1
  /\ seq.solutions = 1
  /\ solutions = {}

\* C5: each solution's success rate equals successCount / (successCount +
\* failureCount), and is 0 when both counts are 0.
C5_SuccessRateDerived ==
  \A s \in solutions :
    IF s.successCount + s.failureCount = 0
    THEN s.successRate = <<0, 1>>
    ELSE /\ s.successRate[2] > 0
         /\ s.successRate[1] * (s.successCount + s.failureCount)
              = s.successCount * s.successRate[2]

\* a solution with one success and one failure
C5_Witness ==
  \E s \in solutions : s.successCount = 1 /\ s.failureCount = 1

\* C6: reportOutcome(s, success) on an existing solution adds 1 to exactly
\* one counter of s (successCount when success, failureCount otherwise) and
\* leaves the other counter, the other fields of s, every other solution and
\* all errors, tags, tag links and embeddings unchanged.
C6_OutcomeFrame ==
  [][\A sid \in SolutionIds, success \in BOOLEAN :
       (ReportOutcome(sid, success) /\ \E s \in solutions : s.id = sid) =>
         /\ UNCHANGED <<errors, tags, errorTags, embeddings>>
         /\ Cardinality(solutions') = Cardinality(solutions)
         /\ \A s \in solutions :
              IF s.id # sid THEN s \in solutions'
              ELSE \E t \in solutions' :
                     /\ t.id = sid
                     /\ t.successCount = s.successCount + (IF success THEN 1 ELSE 0)
                     /\ t.failureCount = s.failureCount + (IF success THEN 0 ELSE 1)
                     /\ t.errorId = s.errorId
                     /\ t.content = s.content
                     /\ t.source = s.source]_vars

\* an outcome was recorded while a second solution, tag links and an
\* embedding were stored
C6_Witness ==
  /\ last.op = "reportOutcome"
  /\ last.status = "ok"
  /\ Cardinality(solutions) = 2
  /\ errorTags # {}
  /\ embeddings # {}

\* C7: a mutation that reports failure to its caller leaves errors,
\* solutions, tags, tag links and embeddings exactly as they were before the
\* call.
C7_FailureLeavesNoTrace ==
  [][(last'.op # "none" /\ last'.status = "throw") =>
       UNCHANGED <<errors, solutions, tags, errorTags, embeddings>>]_vars

\* the embedding row expected for error id e after the batch
LastItemFor(items, e) ==
  items[CHOOSE i \in DOMAIN items :
          /\ items[i].errorId = e
          /\ \A j \in DOMAIN items : items[j].errorId = e => j <= i]

\* C8: batchStoreEmbeddings is all-or-nothing: when an item of the batch
\* names an error id that does not exist the call fails and the embeddings
\* are as before; otherwise it succeeds and every item's error holds the
\* embedding the batch gave it.
C8_BatchAllOrNothing ==
  [][\A items \in Batches :
       BatchStoreEmbeddings(items) =>
         IF \E i \in DOMAIN items : ~ErrorExists(errors, items[i].errorId)
         THEN last'.status = "throw" /\ embeddings' = embeddings
         ELSE /\ last'.status = "ok"
              /\ \A i \in DOMAIN items :
                   \E r \in embeddings' :
                     /\ r.errorId = items[i].errorId
                     /\ bufferToFloatArray(r.embedding)
                          = LastItemFor(items, items[i].errorId).embedding
                     /\ r.dimensions = Len(LastItemFor(items, items[i].errorId).embedding)
                     /\ r.model = ManualModel
              /\ \A r \in embeddings :
                   (\A i \in DOMAIN items : items[i].errorId # r.errorId) => r \in embeddings']_vars

\* a batch failed whose first item could have been written
C8_Witness ==
  /\ last.op = "batchStoreEmbeddings"
  /\ last.status = "throw"
  /\ ErrorExists(errors, last.items[1].errorId)

\* C9: after an initializeDatabase call that failed on the schema version or
\* on a missing table, isDatabaseInitialized() is false and getDatabase()
\* throws.
C9_FailedInitRefusesToStart ==
  (/\ last.op = "initializeDatabase"
   /\ last.status = "throw"
   /\ last.error \in {"version", "schema"})
  => ~isDatabaseInitialized

\* C10: captureError applies the insert-or-increment before it awaits the
\* provider, and when the provider then fails it still returns the id of
\* the recorded error without raising and writes no embedding.
C10_ProviderFailureTolerated ==
  [][/\ \A w \in Tasks, input \in ErrorInputs :
          (CaptureError(w, input) /\ inflight'[w].pc = "embed") =>
            \E e \in errors' :
              /\ e.id = inflight'[w].errorId
              /\ e.hash = hashOf(input)
              /\ \/ e.occurrenceCount = 1 /\ ~ErrorExists(errors, e.id)
                 \/ \E b \in errors : b.id = e.id /\ e.occurrenceCount = b.occurrenceCount + 1
     /\ \A w \in Tasks :
          CaptureErrorEmbed(w, [ok |-> FALSE]) =>
            /\ last' = Result("captureError", "ok", inflight[w].errorId)
            /\ UNCHANGED <<errors, solutions, tags, errorTags, embeddings>>]_vars

\* captureError returned a stored error that has no embedding although the
\* provider is configured
C10_Witness ==
  /\ last.op = "captureError"
  /\ last.status = "ok"
  /\ config.enableEmbeddings
  /\ embeddingGenerator # NULL
  /\ \E e \in errors : e.id = last.id /\ \A r \in embeddings : r.errorId # e.id

\* the error ids of a result list, in order
ResultIds(results) == [i \in DOMAIN results |-> results[i].error.id]

NoRepeat(xs) == \A i \in DOMAIN xs, j \in DOMAIN xs : xs[i] = xs[j] => i = j

\* C11: a findSimilar call whose provider fails returns without raising,
\* and returns the list that the exact and lexical strategies alone give for
\* the same query, options and store.
C11_SearchDegradesToLexical ==
  (last.op = "findSimilar" /\ last.sem.ran /\ ~last.sem.gen.ok) =>
    /\ last.status = "ok"
    /\ last.results =
         slice(sortBySimilarity(textResults(Db, last.scan, last.query, last.options, 0)),
               OrElse(last.options.limit, 10))

\* the provider failed on a query for which an embedding is stored, and the
\* search still found a record
C11_Witness ==
  /\ last.op = "findSimilar"
  /\ last.sem.ran
  /\ ~last.sem.gen.ok
  /\ last.status = "ok"
  /\ last.results # <<>>
  /\ embeddings # {}

\* C12: the list returned by findSimilar, and the list returned by
\* getRelevantMemories, holds no error id twice.
C12_ResultsDeduplicated ==
  last.op \in {"findSimilar", "getRelevantMemories"} => NoRepeat(ResultIds(last.results))

\* getRelevantMemories found one record both by its message and by its tag
C12_Witness ==
  /\ last.op = "getRelevantMemories"
  /\ last.query.tags = <<"React">>
  /\ Len(last.results) = 1
  /\ last.results[1].matchType # "tag"
  /\ "react" \in last.results[1].tags

\* C13: the list returned by findSimilar has at most `limit` entries (10
\* when no limit is given) and its similarity scores never increase along
\* the list.
C13_LimitedAndOrdered ==
  last.op = "findSimilar" =>
    /\ Len(last.results) <= OrElse(last.options.limit, 10)
    /\ \A i \in DOMAIN last.results, j \in DOMAIN last.results :
         i < j => FracGeq(last.results[i].similarity, last.results[j].similarity)

\* with limit 1, the strategies found two records and the better one was
\* returned
C13_Witness ==
  /\ last.op = "findSimilar"
  /\ last.options.limit = 1
  /\ Len(last.results) = 1
  /\ last.results[1].similarity = One
  /\ Len(findSimilar_NoSort(Db, last.scan, last.query, last.options, last.sem)) = 2

\* what the strategies of the call computed, before fusion
StrategyResults ==
  LET semantic == semanticResults(Db, last.scan, last.options, last.sem)
  IN semantic \o textResults(Db, last.scan, last.query, last.options,
                             Len(pushUnseen(<<>>, semantic)))

\* C14: the entry findSimilar returns for a record carries the highest of
\* the similarity scores that its strategies computed for that record.
C14_HighestScoreKept ==
  last.op = "findSimilar" =>
    \A i \in DOMAIN last.results, k \in DOMAIN StrategyResults :
      StrategyResults[k].error.id = last.results[i].error.id
        => FracGeq(last.results[i].similarity, StrategyResults[k].similarity)

\* C15: while a record captured with message m and category c is stored,
\* findSimilar(m, {errorType: c}) returns it with similarity 1.0 and match
\* kind 'exact'.
C15_ExactRoundTrip ==
  last.op = "findSimilar" =>
    \A e \in errors :
      (/\ last.options.errorType # ""
       /\ e.errorType = last.options.errorType
       /\ e.message = last.query)
      => \E i \in DOMAIN last.results :
           /\ last.results[i].error.id = e.id
           /\ last.results[i].similarity = One
           /\ last.results[i].matchType = "exact"

\* C16: every entry findSimilar returns satisfies the project, category and
\* severity filters given in the options.
C16_FiltersRespected ==
  last.op = "findSimilar" =>
    \A i \in DOMAIN last.results : MatchesFilters(last.results[i].error, last.options)

\* the stored embeddings that the semantic strategy of the call may return
Comparable ==
  {r \in embeddings :
     /\ r.dimensions = Len(last.sem.gen.vector)
     /\ FracGeq(cosineSimilarity(last.sem.gen.vector, bufferToFloatArray(r.embedding)).value,
                ScoreOrElse(last.options.minSimilarity, <<7, 10>>))}

\* C17: in a semantic search a stored embedding whose dimensionality differs
\* from the query embedding's is left out and raises nothing, neither in
\* findSimilarByEmbedding nor in findSimilar, while the stored embeddings of
\* the query's dimensionality at or above the floor are returned, best
\* first, up to the limit, and appear in the list findSimilar gives unless
\* that list was cut at its own limit.
C17_MismatchSkipped ==
  (last.op = "findSimilar" /\ last.sem.ran /\ last.sem.gen.ok) =>
    LET limit == OrElse(last.options.limit, 5)
        r == findSimilarByEmbedding(Db, last.scan, last.sem.gen.vector, limit,
                                    ScoreOrElse(last.options.minSimilarity, <<7, 10>>))
        ids == {r.results[i].error.id : i \in DOMAIN r.results}
    IN /\ last.status = "ok"
       /\ r.status = "ok"
       /\ NoRepeat(ResultIds(r.results))
       /\ ids \subseteq {c.errorId : c \in Comparable}
       /\ Len(r.results) = IF Cardinality(Comparable) < limit
                           THEN Cardinality(Comparable) ELSE limit
       /\ \A i \in DOMAIN r.results :
            /\ \E c \in Comparable :
                 /\ c.errorId = r.results[i].error.id
                 /\ r.results[i].similarity =
                      cosineSimilarity(last.sem.gen.vector, bufferToFloatArray(c.embedding)).value
            /\ Len(last.results) < OrElse(last.options.limit, 10)
                 => \E k \in DOMAIN last.results :
                      last.results[k].error.id = r.results[i].error.id

\* a query embedding met a stored embedding of another dimensionality and
\* one of its own, and the latter was returned as a semantic match
C17_Witness ==
  /\ last.op = "findSimilar"
  /\ last.sem.ran
  /\ last.sem.gen.ok
  /\ \E r \in embeddings : r.dimensions # Len(last.sem.gen.vector)
  /\ \E i \in DOMAIN last.results : last.results[i].matchType = "semantic"

\* Math.fround: the single-precision value nearest to v
fround(v) == IF v = 16777217 THEN 16777216 ELSE v

Exactly(v) == v

\* the embeddings other than that of error e are the same before and after
OthersKept(e) ==
  {r \in embeddings : r.errorId # e} = {r \in embeddings' : r.errorId # e}

\* each step of the embedding operations, with Stored(x) the value read back
\* for a stored component x
EmbeddingsFollowStores(Stored(_)) ==
  /\ \A r1 \in embeddings', r2 \in embeddings' : r1.errorId = r2.errorId => r1 = r2
  /\ \A r \in embeddings' : Len(r.embedding) = r.dimensions * 4
  /\ \A e \in ErrorIds, v \in Vectors \cup WideVectors :
       StoreEmbedding(e, v) =>
         IF last'.status = "ok"
         THEN /\ \E r \in embeddings' :
                   /\ r.errorId = e
                   /\ r.model = ManualModel
                   /\ r.dimensions = Len(v)
                   /\ bufferToFloatArray(r.embedding) = [i \in DOMAIN v |-> Stored(v[i])]
              /\ OthersKept(e)
         ELSE embeddings' = embeddings
  /\ \A items \in Batches :
       BatchStoreEmbeddings(items) =>
         IF last'.status = "ok"
         THEN /\ \A i \in DOMAIN items :
                   \E r \in embeddings' :
                     LET v == LastItemFor(items, items[i].errorId).embedding
                     IN /\ r.errorId = items[i].errorId
                        /\ r.model = ManualModel
                        /\ r.dimensions = Len(v)
                        /\ bufferToFloatArray(r.embedding) = [k \in DOMAIN v |-> Stored(v[k])]
              /\ \A r \in embeddings \cup embeddings' :
                   (\A i \in DOMAIN items : items[i].errorId # r.errorId)
                     => r \in embeddings \cap embeddings'
         ELSE embeddings' = embeddings
  /\ \A e \in ErrorIds :
       (DeleteEmbedding(e) \/ DeleteError(e)) =>
         /\ \A r \in embeddings' : r.errorId # e
         /\ OthersKept(e)
  /\ \A w \in Tasks, input \in StoreInputs :
       CaptureError(w, input) => embeddings' = embeddings

C19_NormalizeIdempotent ==
  last.op = "normalizeErrorMessage" =>
    normalizeErrorMessage(last.result) = last.result

\* the strings one insertion, deletion or substitution away from s, among
\* the strings of at most n code units
EditNeighbours(s, n) ==
  {SubSeq(s, 1, i - 1) \o SubSeq(s, i + 1, Len(s)) : i \in DOMAIN s}
  \cup {[s EXCEPT ![i] = c] : i \in DOMAIN s, c \in CodeUnits}
  \cup (IF Len(s) >= n THEN {}
        ELSE {SubSeq(s, 1, i) \o <<c>> \o SubSeq(s, i + 1, Len(s)) :
                i \in 0..Len(s), c \in CodeUnits})

\* the strings at most k edits away from s
RECURSIVE EditBall(_, _, _)
EditBall(s, k, n) ==
  IF k = 0 THEN {s}
  ELSE LET inner == EditBall(s, k - 1, n)
       IN inner \cup UNION {EditNeighbours(t, n) : t \in inner}

\* the least number of edits that turn a into b; a shortest edit script
\* never needs a string longer than the longer of a and b
MinEdits(a, b) ==
  LET n == IF Len(a) >= Len(b) THEN Len(a) ELSE Len(b)
  IN CHOOSE k \in 0..(Len(a) + Len(b)) :
       /\ b \in EditBall(a, k, n)
       /\ k = 0 \/ b \notin EditBall(a, k - 1, n)

\* C20: levenshteinDistance(a, b) is the least number of single-code-unit
\* insertions, deletions and substitutions that turn a into b; it is
\* symmetric, 0 exactly when a = b, and the other string's length when one
\* string is empty.
C20_LevenshteinIsEditDistance ==
  last.op = "levenshteinDistance" =>
    /\ last.result = MinEdits(last.a, last.b)
    /\ last.result = levenshteinDistance(last.b, last.a)
    /\ last.result = 0 <=> last.a = last.b
    /\ last.a = <<>> => last.result = Len(last.b)
    /\ last.b = <<>> => last.result = Len(last.a)

\* two strings of equal length that are two substitutions apart
C20_Witness ==
  /\ last.op = "levenshteinDistance"
  /\ last.a = <<"a", "b">>
  /\ last.b = <<"b", "a">>
  /\ last.result = 2

\* the stored errors linked to a tag whose name is one of the names given,
\* letter case aside
Carrying(tagNames) ==
  {e \in errors :
     \E i \in DOMAIN tagNames : toLowerCase(tagNames[i]) \in getTagsByErrorId(Db, e.id)}

\* C21: findByTags returns every stored error that carries one of the given
\* tags, each once, however many there are, each entry with match kind
\* 'tag' and no similarity score.
C21_FindByTagsComplete ==
  last.op = "findByTags" =>
    /\ {last.results[i].error : i \in DOMAIN last.results} = Carrying(last.query)
    /\ NoRepeat(ResultIds(last.results))
    /\ \A i \in DOMAIN last.results :
         last.results[i].matchType = "tag" /\ last.results[i].similarity = <<>>

\* C22: no two tags have names that are equal after lower-casing and
\* trimming, and getOrCreateTags called with a name that an existing tag
\* bears, letter case and surrounding blanks aside, returns that tag and
\* creates none of that name.
C22_TagNamesFolded ==
  /\ [](\A t \in tags, u \in tags :
          trim(toLowerCase(t.name)) = trim(toLowerCase(u.name)) => t = u)
  /\ [][\A names \in TagNameLists :
          GetOrCreateTags(names) =>
            \A i \in DOMAIN names, t \in tags :
              trim(toLowerCase(t.name)) = trim(toLowerCase(names[i])) =>
                /\ t.id \in Range(last'.ids)
                /\ \A u \in tags' :
                     trim(toLowerCase(u.name)) = trim(toLowerCase(t.name)) => u = t]_vars

\* getOrCreateTags(['React']) returned the tag 'react', which existed before
\* the call since a tag was created after it
C22_Witness ==
  /\ last.op = "getOrCreateTags"
  /\ last.names = <<"React">>
  /\ \E t \in tags :
       /\ t.name = "react"
       /\ last.ids = <<t.id>>
       /\ t.id < seq.tags

\* C23: addTagsToError and tagError, asked to add only tags the error
\* already carries, report no failure and leave the tag links as they were;
\* and adding a list of tags a second time changes nothing.
C23_RelinkIsNoOp ==
  /\ [][\A e \in ErrorIds, ids \in AddTagIdLists :
          (/\ AddTagsToError(e, ids)
           /\ \A i \in DOMAIN ids : [errorId |-> e, tagId |-> ids[i]] \in errorTags)
          => last'.status = "ok" /\ errorTags' = errorTags /\ tags' = tags]_vars
  /\ [][\A e \in ErrorIds, names \in TagLists :
          (/\ TagError(e, names)
           /\ \A i \in DOMAIN names :
                \E t \in tags : /\ t.name = trim(toLowerCase(names[i]))
                                 /\ [errorId |-> e, tagId |-> t.id] \in errorTags)
          => last'.status = "ok" /\ errorTags' = errorTags /\ tags' = tags]_vars
  /\ [](\A e \in ErrorIds, ids \in AddTagIdLists :
          LET once == addTagsToError(Db, e, ids)
          IN addTagsToError(once.db, e, ids) = once)

\* one call linked tag 2 and then added it again
C23_Witness ==
  /\ last.op = "addTagsToError"
  /\ last.status = "ok"
  /\ last.tagIds = <<2, 2>>
  /\ [errorId |-> last.id, tagId |-> 2] \in errorTags

\* C24: getSolutionsForError returns the error's solutions in non-increasing
\* order of success rate, and getBestSolutionForError returns one of them
\* whose success rate none of them exceeds (null when there is none).
C24_SolutionsRanked ==
  /\ last.op = "getSolutionsForError" =>
       /\ Range(last.results) = {s \in solutions : s.errorId = last.id}
       /\ Len(last.results) = Cardinality(Range(last.results))
       /\ \A i \in DOMAIN last.results, j \in DOMAIN last.results :
            i < j => FracGeq(last.results[i].successRate, last.results[j].successRate)
  /\ last.op = "getBestSolutionForError" =>
       IF \E s \in solutions : s.errorId = last.id
       THEN /\ Len(last.result) = 1
            /\ last.result[1] \in solutions
            /\ last.result[1].errorId = last.id
            /\ \A s \in solutions :
                 s.errorId = last.id => FracGeq(last.result[1].successRate, s.successRate)
       ELSE last.result = <<>>

\* the best solution has 2 successes and no failure and was recorded after
\* one of the same error with 1 success and 1 failure
C24_Witness ==
  /\ last.op = "getBestSolutionForError"
  /\ Len(last.result) = 1
  /\ last.result[1].id = 2
  /\ last.result[1].successCount = 2
  /\ last.result[1].failureCount = 0
  /\ \E s \in solutions :
       s.id = 1 /\ s.errorId = last.id /\ s.successCount = 1 /\ s.failureCount = 1

\* the composite score of an entry: 40 x similarity (0 when undefined), and
\* for an entry with solutions 20 + 30 x the best success rate + 2 per
\* attempt of the best solution up to 10
CompositeScore(r) ==
  LET sim == IF r.similarity = <<>> THEN <<0, 1>> ELSE r.similarity
      top == {i \in DOMAIN r.solutions :
                \A j \in DOMAIN r.solutions :
                  FracGeq(r.solutions[i].successRate, r.solutions[j].successRate)}
      best == r.solutions[CHOOSE i \in top : \A j \in top : i <= j]
      attempts == best.successCount + best.failureCount
  IN IF r.solutions = <<>> THEN FracMul(<<40, 1>>, sim)
     ELSE FracAdd(FracMul(<<40, 1>>, sim),
                  FracAdd(<<20, 1>>,
                          FracAdd(FracMul(<<30, 1>>, best.successRate),
                                  <<IF 2 * attempts < 10 THEN 2 * attempts ELSE 10, 1>>)))

\* the merged candidate list of the getRelevantMemories call
Candidates ==
  relevantCandidates(Db, last.scan, last.query,
    IF last.query.errorMessage = <<>> THEN <<>>
    ELSE findSimilar(Db, last.scan, last.query.errorMessage, last.options, last.sem))

\* C25: getRelevantMemories returns at most 5 entries, all of them
\* candidates of its merged list, in non-increasing order of composite
\* score, and no candidate left out scores higher than one returned; of two
\* entries with equal similarity, one without a solution is never ahead of
\* one with.
C25_RelevantRanked ==
  last.op = "getRelevantMemories" =>
    /\ Len(last.results) = (IF Len(Candidates) < 5 THEN Len(Candidates) ELSE 5)
    /\ Range(last.results) \subseteq Range(Candidates)
    /\ \A i \in DOMAIN last.results, j \in DOMAIN last.results :
         i < j =>
           /\ FracGeq(CompositeScore(last.results[i]), CompositeScore(last.results[j]))
           /\ (/\ last.results[i].similarity = last.results[j].similarity
               /\ last.results[j].solutions # <<>>)
              => last.results[i].solutions # <<>>
    /\ \A c \in Range(Candidates) \ Range(last.results), i \in DOMAIN last.results :
         FracGeq(CompositeScore(last.results[i]), CompositeScore(c))

\* of 8 candidates the 5 best were returned: a tag match with a proven
\* solution first, ahead of message matches without a solution
C25_Witness ==
  /\ last.op = "getRelevantMemories"
  /\ Len(Candidates) = 8
  /\ Len(last.results) = 5
  /\ last.results[1].matchType = "tag"
  /\ last.results[1].solutions # <<>>
  /\ last.results[2].similarity = One
  /\ last.results[2].solutions = <<>>

\* C26: a solution that was tried is 'good' exactly when its success rate is
\* at least 80%, 'caution' exactly when it is at least 50% and below 80%,
\* and 'poor' otherwise; one that was never tried is 'untested'.
C26_TierFollowsRate ==
  last.op = "formatSuccessInfo" =>
    LET s == last.successCount
        n == last.successCount + last.failureCount
    IN IF n = 0 THEN last.result = "untested"
       ELSE /\ last.result = "good" <=> 100 * s >= 80 * n
            /\ last.result = "caution" <=> (100 * s >= 50 * n /\ 100 * s < 80 * n)
            /\ last.result = "poor" <=> 100 * s < 50 * n

\* the fingerprints the query of the call can have: with the category read
\* from the text, or with the category of the options
QueryFingerprints ==
  {generateErrorHash(last.query, extractErrorType(last.query))} \cup
  (IF last.options.errorType = "" THEN {}
   ELSE {generateErrorHash(last.query, last.options.errorType)})

\* C27: an entry of findSimilar is labelled 'exact' only if its record's
\* fingerprint is the query's, and it is labelled 'semantic' exactly when
\* the semantic strategy produced it; what the lexical fallback produced is
\* labelled 'hash'.
C27_MatchKindNamesStrategy ==
  last.op = "findSimilar" =>
    \A i \in DOMAIN last.results :
      LET r == last.results[i]
          semantic == semanticResults(Db, last.scan, last.options, last.sem)
      IN /\ r.matchType \in {"exact", "semantic", "hash"}
         /\ r.matchType = "exact" => r.error.hash \in QueryFingerprints
         /\ r.matchType = "semantic" <=>
              \E k \in DOMAIN semantic : semantic[k].error.id = r.error.id
         /\ (r.matchType # "semantic" /\ r.error.hash \notin QueryFingerprints)
              => r.matchType = "hash"

\* C28: a recordError call whose fingerprint is that of a stored record adds
\* 1 to that record's occurrence count, sets its last-seen time, and leaves
\* its other fields, its tags, every other record and all tags, tag links,
\* solutions and embeddings as they were.
C28_ResightingFrame ==
  [][\A w \in Tasks, input \in ErrorInputs :
       (CaptureError(w, input) /\ \E e \in errors : e.hash = hashOf(input)) =>
         /\ errors' = {IF e.hash = hashOf(input)
                       THEN [e EXCEPT !.occurrenceCount = @ + 1, !.lastSeenAt = now]
                       ELSE e : e \in errors}
         /\ UNCHANGED <<solutions, tags, errorTags, embeddings, seq>>]_vars

\* a record first reported with severity 'high', project 'p2' and tag 'vue'
\* was reported again, a tick later, with severity 'low', project 'p1' and
\* tag 'React'
C28_Witness ==
  /\ inflight["w1"].pc = "embed"
  /\ inflight["w1"].input = InA
  /\ \E e \in errors :
       /\ e.id = inflight["w1"].errorId
       /\ e.occurrenceCount = 2
       /\ e.firstSeenAt = 0
       /\ e.lastSeenAt = 1
       /\ e.message = MsgLine99
       /\ e.severity = "high"
       /\ e.projectName = "p2"
       /\ getTagsByErrorId(Db, e.id) = {"vue", "x"}
  /\ \A t \in tags : t.name # "react"

\* C29: a report is counted on an existing record only if that record has
\* the report's category and normalized message.
C29_DistinctPairsDistinctRecords ==
  [][\A w \in Tasks, input \in ColonInputs :
       CaptureError(w, input) =>
         \A e \in errors : e.id = ReturnedId(w) => e \in SameReport(errors, input)]_vars

\* C30: every connection that is open is the one the singleton refers to,
\* so that closeDatabase closes it.
C30_OneConnection ==
  \A h \in handles : h = dbInstance

====
